---- MODULE Spec2Model ----
(***************************************************************************)
(* A model of pasteflow's rule matcher and scorer (src/src/rules.rs).      *)
(*                                                                         *)
(* Strings are sequences of one-character strings, Vec<T> is a sequence,   *)
(* Option<T> is a record [some, val] (val is a default when some is        *)
(* FALSE), i32 scores are integers.                                        *)
(***************************************************************************)
EXTENDS Integers, Sequences, FiniteSets, TLC

VARIABLES
    rules,      \* the Rule instances (cfg.rules, or the rule under test)
    cells,      \* the heap of OnceCell<Option<Regex>> allocations, by address
    self,       \* the index in rules of the receiver of the current matches call
    ctx,        \* the MatchContext of the current call
    max,        \* the `max` argument of the current suggest_rules call
    ret,        \* the value returned by the last Rule::matches call
    out,        \* the Vec<Suggestion> returned by the last suggest_rules call
    pc,         \* the position of the caller
    thr,        \* the scoring pass each thread is running: its locals
    input,      \* the text handed to detection or to a transform
    types,      \* the Vec<ContentType> returned by detect_content_types
    chain,      \* the transforms applied so far, each to the previous output
    panel,      \* AppState.panel: input, output, diff, error
    selected_rule_id,   \* AppState.selected_rule_id
    state       \* the rest of AppState: history, and cfg.ui_state

vars == <<rules, cells, self, ctx, max, ret, out, pc, thr,
          input, types, chain, panel, selected_rule_id, state>>

\* the variables of detection, the transforms and the preview panel
textVars == <<input, types, chain, panel, selected_rule_id, state>>

----------------------------------------------------------------------------
(* Bounds of the model.                                                    *)

MaxTextLen == 2
MaxRules == 3
NThreads == 2
MaxInstances == 2

----------------------------------------------------------------------------
(* Option<T>.                                                              *)

None(default) == [some |-> FALSE, val |-> default]
Some(x) == [some |-> TRUE, val |-> x]

NoVec == None(<<>>)
NoString == None(<<>>)
NoScore == None(0)

\* no rule id
NoId == None("")

\* the panel before any clipboard text was read
NoPanel == [input |-> <<>>, output |-> <<>>, diff |-> <<>>, error |-> NoString]

\* what send_state takes from the panel: the fields before, after and
\* error of the UiState, and selected_rule_id
UiState(before, after, selected, error) ==
    [before |-> before, after |-> after, selected_rule_id |-> selected, error |-> error]

\* the handler sent no state to the panel
NoSent == None(UiState(<<>>, <<>>, NoId, NoString))

\* what the configuration editor did in the last event: the message, its
\* text, whether the text parsed and whether it was written
NoIo == [event |-> "none", raw |-> <<>>, parsed |-> FALSE, wrote |-> FALSE]

\* AppState.history and cfg.ui_state of an application that handled no
\* event, and what a handler does to the world around it: read is the
\* outcome of clipboard.get_text() in the last event ("none" when it read
\* nothing), keystroke whether the event simulated Cmd+V, sent the state
\* that it sent to the panel, visible whether the window is shown. hotkey
\* is cfg.hotkey, file the text of the configuration file, manager the
\* hotkeys that the hotkey manager holds, config_text to hotkey_warnings
\* the fields of AppState, applied how the last call of apply_hotkeys
\* ended ("none" when the event made no call)
NoState ==
    [history |-> <<>>, ui_state |-> <<>>, read |-> "none", keystroke |-> FALSE,
     visible |-> FALSE, sent |-> NoSent,
     hotkey |-> [combo |-> <<>>, apps |-> <<>>], file |-> <<>>,
     config_text |-> NoString, config_error |-> NoString,
     config_draft_error |-> NoString, config_diff |-> NoString,
     manager |-> {}, registered_hotkeys |-> {}, hotkey_map |-> <<>>,
     hotkey_warnings |-> {}, applied |-> "none", io |-> NoIo]

\* no text is being detected, transformed or previewed
NoText ==
    /\ input = <<>>
    /\ types = <<>>
    /\ chain = <<>>
    /\ panel = NoPanel
    /\ selected_rule_id = NoId
    /\ state = NoState

Min(a, b) == IF a < b THEN a ELSE b

----------------------------------------------------------------------------
(* str: to_lowercase, contains.                                            *)

Alphabet == {"a", "b"}

\* the lower-case letter of each upper-case ASCII letter
LowerCase ==
    "A" :> "a" @@ "B" :> "b" @@ "C" :> "c" @@ "D" :> "d" @@ "E" :> "e" @@ "F" :> "f" @@ "G" :> "g" @@
    "H" :> "h" @@ "I" :> "i" @@ "J" :> "j" @@ "K" :> "k" @@ "L" :> "l" @@ "M" :> "m" @@ "N" :> "n" @@
    "O" :> "o" @@ "P" :> "p" @@ "Q" :> "q" @@ "R" :> "r" @@ "S" :> "s" @@ "T" :> "t" @@ "U" :> "u" @@
    "V" :> "v" @@ "W" :> "w" @@ "X" :> "x" @@ "Y" :> "y" @@ "Z" :> "z"

ToLowerChar(c) == IF c \in DOMAIN LowerCase THEN LowerCase[c] ELSE c

to_lowercase(s) == [i \in 1..Len(s) |-> ToLowerChar(s[i])]

contains(hay, needle) ==
    \E off \in 0..(Len(hay) - Len(needle)) :
        \A i \in 1..Len(needle) : hay[off + i] = needle[i]

InVec(x, v) == \E i \in DOMAIN v : v[i] = x

Range(v) == {v[i] : i \in DOMAIN v}

----------------------------------------------------------------------------
(* The regex crate, as far as the matcher uses it: Regex::new fails on a   *)
(* pattern with an unclosed group, a compiled Regex is the program of the  *)
(* pattern ('^' anchors at the start, '.' matches any character, any other *)
(* character matches itself), is_match searches the text for it.           *)

NoProgram == [anchored |-> FALSE, prog |-> <<>>]
NoRegex == None(NoProgram)

Count(pattern, c) == Cardinality({i \in DOMAIN pattern : pattern[i] = c})

RegexNew(pattern) ==
    IF Count(pattern, "(") # Count(pattern, ")")
    THEN NoRegex
    ELSE LET anchored == Len(pattern) > 0 /\ pattern[1] = "^"
             body == IF anchored THEN SubSeq(pattern, 2, Len(pattern)) ELSE pattern
         IN  Some([anchored |-> anchored,
                   prog |-> SelectSeq(body, LAMBDA c : c \notin {"(", ")"})])

is_match(re, text) ==
    \E off \in (IF re.anchored THEN {0} ELSE 0..Len(text)) :
        /\ off + Len(re.prog) <= Len(text)
        /\ \A i \in 1..Len(re.prog) :
               re.prog[i] = "." \/ re.prog[i] = text[off + i]

----------------------------------------------------------------------------
(* Rule, Matchers, MatchContext, Suggestion.                               *)

ContentType == {"Json", "Yaml", "Text", "List", "Timestamp"}

Matchers(content_types, apps, regex) ==
    [content_types |-> content_types, apps |-> apps, regex |-> regex]

\* A Rule as deserialized from the configuration; compiled_regex is the
\* address of the OnceCell its Arc points to.
Rule(id, pinned, matchers, cell) ==
    [id |-> id, name |-> id, description |-> NoString, pinned |-> pinned,
     transform |-> NoString, llm |-> NoString, auto_accept |-> FALSE,
     matchers |-> matchers, compiled_regex |-> cell]

MatchContext(text, content_types, active_app) ==
    [text |-> text, content_types |-> content_types, active_app |-> active_app]

Suggestion(rule, score) == [rule |-> rule, score |-> score]

\* OnceCell::new()
EmptyCell == [state |-> "uninit", value |-> NoRegex, inits |-> 0]

----------------------------------------------------------------------------
(* Rule::get_compiled_regex: OnceCell::get_or_init on the rule's cell.     *)

\* the closure passed to get_or_init
compile_pattern(rule) ==
    IF rule.matchers.regex.some THEN RegexNew(rule.matchers.regex.val) ELSE NoRegex

\* a plausible bug: the first call stores the compiled pattern but returns
\* what the cell held before
get_compiled_regex_stale(rule, cs) ==
    LET c == cs[rule.compiled_regex]
        v == compile_pattern(rule)
    IN  IF c.state = "init"
        THEN [re |-> c.value, cells |-> cs]
        ELSE [re |-> c.value,
              cells |-> [cs EXCEPT ![rule.compiled_regex] =
                            [state |-> "init", value |-> v, inits |-> c.inits + 1]]]

get_compiled_regex(rule, cs) ==
    LET c == cs[rule.compiled_regex]
        v == compile_pattern(rule)
    IN  IF c.state = "init"
        THEN [re |-> c.value, cells |-> cs]
        ELSE [re |-> v,
              cells |-> [cs EXCEPT ![rule.compiled_regex] =
                            [state |-> "init", value |-> v, inits |-> c.inits + 1]]]

----------------------------------------------------------------------------
(* Rule::matches.                                                          *)

\* content_types.iter().filter(|t| ctx.content_types.contains(t)).count()
overlap(accepted, detected) ==
    Len(SelectSeq(accepted, LAMBDA t : InVec(t, detected)))

\* the loop over apps: the flags `matched` and `exact` at its end
app_scan(apps, active) ==
    LET active_lower == to_lowercase(active)
    IN  [matched |-> \E k \in DOMAIN apps :
                        contains(active_lower, to_lowercase(apps[k])),
         exact |-> \E k \in DOMAIN apps :
                        /\ contains(active_lower, to_lowercase(apps[k]))
                        /\ active_lower = to_lowercase(apps[k])]

\* a plausible bug: a pattern that does not compile skips the clause
regex_clause_fails_lenient(re, text) == re.some /\ ~is_match(re.val, text)

\* `let re = self.get_compiled_regex()?; if !re.is_match(&ctx.text)`
regex_clause_fails(re, text) == ~re.some \/ ~is_match(re.val, text)

\* a plausible bug: the specificity bonus is left out
final_score_no_bonus(score, specificity, pinned) ==
    (IF specificity = 0 THEN 1 ELSE score) + (IF pinned THEN 1000 ELSE 0)

\* a plausible bug: the catch-all rule keeps its zero score
final_score_no_floor(score, specificity, pinned) ==
    (score + specificity * 5) + (IF pinned THEN 1000 ELSE 0)

\* lines 122-130: the specificity bonus, the floor of 1, the pinned boost
final_score(score, specificity, pinned) ==
    (IF specificity = 0 THEN 1 ELSE score + specificity * 5)
        + (IF pinned THEN 1000 ELSE 0)

\* a plausible bug: a content-type clause with no overlap does not reject
content_clause_fails_never(m, c) == FALSE

content_clause_fails(m, c) ==
    m.content_types.some /\ overlap(m.content_types.val, c.content_types) = 0

\* ctx.active_app.as_deref().unwrap_or("")
active_name(c) == IF c.active_app.some THEN c.active_app.val ELSE <<>>

app_clause_fails(m, c) ==
    m.apps.some /\ ~app_scan(m.apps.val, active_name(c)).matched

\* whether the call reaches line 115 and so touches the rule's cell
reaches_regex(rule, c) ==
    /\ ~content_clause_fails(rule.matchers, c)
    /\ ~app_clause_fails(rule.matchers, c)
    /\ rule.matchers.regex.some

\* Rule::matches given what get_compiled_regex returns (used only when the
\* call reaches the regex clause)
matches_with(rule, c, re) ==
    LET m == rule.matchers
        matched == overlap(m.content_types.val, c.content_types)
        scan == app_scan(m.apps.val, active_name(c))
        score1 == IF m.content_types.some THEN 60 + matched * 5 ELSE 0
        score2 == IF m.apps.some
                  THEN score1 + 50 + (IF scan.exact THEN 10 ELSE 0)
                  ELSE score1
        score3 == IF m.regex.some THEN score2 + 40 ELSE score2
        specificity == (IF m.content_types.some THEN 1 ELSE 0)
                        + (IF m.apps.some THEN 1 ELSE 0)
                        + (IF m.regex.some THEN 1 ELSE 0)
    IN  IF content_clause_fails(m, c) THEN NoScore
        ELSE IF app_clause_fails(m, c) THEN NoScore
        ELSE IF m.regex.some /\ regex_clause_fails(re, c.text) THEN NoScore
        ELSE Some(final_score(score3, specificity, rule.pinned))

\* Rule::matches on the heap cs: [ret, cells]
matches(rule, c, cs) ==
    LET g == IF reaches_regex(rule, c)
             THEN get_compiled_regex(rule, cs)
             ELSE [re |-> NoRegex, cells |-> cs]
    IN  [ret |-> matches_with(rule, c, g.re), cells |-> g.cells]

----------------------------------------------------------------------------
(* suggest_rules.                                                          *)

\* rules.iter().filter_map(..).collect(), from rule i on: [sugs, cells]
RECURSIVE filter_map(_, _, _, _, _)
filter_map(rs, c, cs, i, acc) ==
    IF i > Len(rs)
    THEN [sugs |-> acc, cells |-> cs]
    ELSE LET r == matches(rs[i], c, cs)
         IN  filter_map(rs, c, r.cells, i + 1,
                        IF r.ret.some
                        THEN Append(acc, Suggestion(rs[i], r.ret.val))
                        ELSE acc)

\* a plausible bug: an unstable sort, equal scores change places
insert_by_score_unstable(sorted, s) ==
    LET pos == Cardinality({j \in DOMAIN sorted : sorted[j].score > s.score})
    IN  SubSeq(sorted, 1, pos) \o <<s>> \o SubSeq(sorted, pos + 1, Len(sorted))

\* one step of the stable sort by |a, b| b.score.cmp(&a.score): s goes
\* behind every element that does not compare greater than it
insert_by_score(sorted, s) ==
    LET pos == Cardinality({j \in DOMAIN sorted : sorted[j].score >= s.score})
    IN  SubSeq(sorted, 1, pos) \o <<s>> \o SubSeq(sorted, pos + 1, Len(sorted))

RECURSIVE sort_from(_, _, _)
sort_from(v, i, sorted) ==
    IF i > Len(v) THEN sorted
    ELSE sort_from(v, i + 1, insert_by_score(sorted, v[i]))

\* suggestions.sort_by(|a, b| b.score.cmp(&a.score))
sort_by_score(v) == sort_from(v, 1, <<>>)

\* a plausible bug: the cut is one element late
truncate_late(v, n) == SubSeq(v, 1, Min(n + 1, Len(v)))

\* Vec::truncate
truncate(v, n) == SubSeq(v, 1, Min(n, Len(v)))

\* suggest_rules on the heap cs: [out, cells]
suggest_rules(rs, c, n, cs) ==
    LET f == filter_map(rs, c, cs, 1, <<>>)
    IN  [out |-> truncate(sort_by_score(f.sugs), n), cells |-> f.cells]

----------------------------------------------------------------------------
(* The inputs.                                                             *)

RECURSIVE SeqsUpTo(_, _)
SeqsUpTo(S, n) ==
    IF n = 0 THEN {<<>>}
    ELSE LET shorter == SeqsUpTo(S, n - 1)
         IN  shorter \cup {Append(s, x) : s \in shorter, x \in S}

Texts == SeqsUpTo(Alphabet, MaxTextLen)

\* what detect_content_types can return for a text, and more
DetectedTypes == {<<"Text">>, <<"Text", "Json">>, <<"Text", "Yaml", "List">>}

ActiveApps ==
    {NoString, Some(<<>>), Some(<<"S", "l">>), Some(<<"s", "l", "k">>)}

Contexts ==
    {MatchContext(t, d, a) : t \in Texts, d \in DetectedTypes, a \in ActiveApps}

\* a list that names the same type many times
LongTypeList == [i \in 1..200 |-> "Json"]

AcceptedTypes ==
    {NoVec, Some(<<>>), Some(<<"Json">>), Some(<<"Json", "Json">>),
     Some(<<"List", "Json">>), Some(<<"Timestamp">>)}

AcceptedApps ==
    {NoVec, Some(<< <<>> >>), Some(<< <<"s", "l">> >>),
     Some(<< <<"k">>, <<"S", "L">> >>)}

Patterns ==
    {NoString, Some(<<"a">>), Some(<<"^", "b">>), Some(<<".", "b">>),
     Some(<<"(", "a">>)}

AllMatchers ==
    {Matchers(t, a, r) : t \in AcceptedTypes, a \in AcceptedApps, r \in Patterns}

NoContext == MatchContext(<<>>, <<"Text">>, NoString)

Threads == 1..NThreads

\* the locals of a thread that runs no pass
IdleThread ==
    [pc |-> "idle", ctx |-> NoContext, max |-> 0, i |-> 0, acc |-> <<>>, out |-> <<>>]

NoThreads == [t \in Threads |-> IdleThread]

----------------------------------------------------------------------------
(* SpecMatch: one rule, called with one context after another.             *)

InitMatch ==
    /\ \E m \in AllMatchers, p \in BOOLEAN : rules = <<Rule("r1", p, m, 1)>>
    /\ cells = <<EmptyCell>>
    /\ self = 1
    /\ ctx \in Contexts
    /\ max = 0
    /\ ret = NoScore
    /\ out = <<>>
    /\ pc = "ready"
    /\ thr = NoThreads
    /\ NoText

\* rule.matches(&ctx)
MatchesCall ==
    /\ pc = "ready"
    /\ LET r == matches(rules[self], ctx, cells)
       IN  /\ ret' = r.ret
           /\ cells' = r.cells
    /\ pc' = "returned"
    /\ UNCHANGED <<rules, self, ctx, max, out, thr, textVars>>

\* the caller builds the next MatchContext
NextContext ==
    /\ pc = "returned"
    /\ ctx' \in Contexts
    /\ ret' = NoScore
    /\ pc' = "ready"
    /\ UNCHANGED <<rules, cells, self, max, out, thr, textVars>>

NextMatch == MatchesCall \/ NextContext

SpecMatch == InitMatch /\ [][NextMatch]_vars

----------------------------------------------------------------------------
(* What the matcher clauses ask of a context.                              *)

ContentClauseHolds(m, c) ==
    \E t \in ContentType : InVec(t, m.content_types.val) /\ InVec(t, c.content_types)

AppClauseHolds(m, c) ==
    \E k \in DOMAIN m.apps.val :
        contains(to_lowercase(active_name(c)), to_lowercase(m.apps.val[k]))

RegexClauseHolds(m, c) ==
    /\ RegexNew(m.regex.val).some
    /\ is_match(RegexNew(m.regex.val).val, c.text)

AllPresentClausesHold(m, c) ==
    /\ m.content_types.some => ContentClauseHolds(m, c)
    /\ m.apps.some => AppClauseHolds(m, c)
    /\ m.regex.some => RegexClauseHolds(m, c)

ClausesPresent(m) ==
    (IF m.content_types.some THEN 1 ELSE 0) + (IF m.apps.some THEN 1 ELSE 0)
        + (IF m.regex.some THEN 1 ELSE 0)

\* the number of accepted-type entries of the rule that the context detected
OverlapCount(m, c) ==
    LET accepted == m.content_types.val
    IN  Cardinality({i \in DOMAIN accepted : accepted[i] \in Range(c.content_types)})

ExactApp(m, c) ==
    \E k \in DOMAIN m.apps.val :
        to_lowercase(m.apps.val[k]) = to_lowercase(active_name(c))

\* the score the scoring policy states, clause by clause
PolicyScore(r, c) ==
    (IF r.matchers.content_types.some THEN 60 + 5 * OverlapCount(r.matchers, c) ELSE 0)
    + (IF r.matchers.apps.some
       THEN 50 + (IF ExactApp(r.matchers, c) THEN 10 ELSE 0)
       ELSE 0)
    + (IF r.matchers.regex.some THEN 40 ELSE 0)
    + 5 * ClausesPresent(r.matchers)
    + (IF r.pinned THEN 1000 ELSE 0)

C6_CatchAllScore ==
    (pc = "returned" /\ ClausesPresent(rules[self].matchers) = 0) =>
        ret = Some(IF rules[self].pinned THEN 1001 ELSE 1)

\* C6 witness: the pinned catch-all rule scored 1001 with no active
\* application.
C6_Witness ==
    /\ pc = "returned"
    /\ ClausesPresent(rules[self].matchers) = 0
    /\ rules[self].pinned
    /\ ~ctx.active_app.some
    /\ ret = Some(1001)

----------------------------------------------------------------------------
(* Spec: a rule list as loaded from the configuration, ranked by one       *)
(* suggest_rules call after another.                                       *)

RuleIds == <<"r1", "r2", "r3", "r4", "r5">>

\* [pinned, matchers] of the rules the lists are made of
RuleTemplates ==
    {[pinned |-> FALSE, matchers |-> Matchers(NoVec, NoVec, NoString)],
     [pinned |-> TRUE, matchers |-> Matchers(NoVec, NoVec, NoString)],
     [pinned |-> FALSE, matchers |-> Matchers(Some(<<"Json">>), NoVec, Some(<<"a">>))],
     [pinned |-> TRUE, matchers |-> Matchers(NoVec, NoVec, Some(<<"(", "a">>))],
     [pinned |-> FALSE, matchers |-> Matchers(Some(LongTypeList), NoVec, NoString)]}

\* toml::from_str: every rule gets an id and a cell of its own
LoadRules(ts) ==
    [i \in 1..Len(ts) |-> Rule(RuleIds[i], ts[i].pinned, ts[i].matchers, i)]

RuleLists == {LoadRules(ts) : ts \in SeqsUpTo(RuleTemplates, MaxRules) \ {<<>>}}

FreshCells(rs) == [i \in 1..Len(rs) |-> EmptyCell]

PassContexts ==
    {MatchContext(<<"a">>, <<"Text", "Json">>, NoString),
     MatchContext(<<"b">>, <<"Text">>, NoString),
     MatchContext(<<"b", "a">>, <<"Text", "Json", "Timestamp">>, Some(<<"S", "l">>))}

Init ==
    /\ rules \in RuleLists
    /\ cells = FreshCells(rules)
    /\ self = 1
    /\ ctx = NoContext
    /\ max = 0
    /\ ret = NoScore
    /\ out = <<>>
    /\ pc = "idle"
    /\ thr = NoThreads
    /\ NoText

\* suggest_rules(&cfg.rules, &ctx, n)
SuggestCall ==
    /\ \E c \in PassContexts, n \in 0..(MaxRules + 1) :
          LET r == suggest_rules(rules, c, n, cells)
          IN  /\ ctx' = c
              /\ max' = n
              /\ out' = r.out
              /\ cells' = r.cells
    /\ pc' = "returned"
    /\ UNCHANGED <<rules, self, ret, thr, textVars>>

Next == SuggestCall

Spec == Init /\ [][Next]_vars

----------------------------------------------------------------------------
(* The ranking, stated on the rule list.                                   *)

\* the score of rule i in context c, its pattern compiled for this call
ScoreOf(rs, i, c) == matches_with(rs[i], c, compile_pattern(rs[i]))

Matching(rs, c) == {i \in DOMAIN rs : ScoreOf(rs, i, c).some}

\* the position in the configuration of the rule a suggestion was made from
IndexOf(rs, sug) == CHOOSE i \in DOMAIN rs : rs[i].id = sug.rule.id

Uncompilable(r) == r.matchers.regex.some /\ ~RegexNew(r.matchers.regex.val).some

\* C3: suggestions come in non-increasing score order, and suggestions
\* with equal scores keep the order their rules have in the rule list.
C3_SortedStable ==
    pc = "returned" =>
        \A p, q \in DOMAIN out :
            p < q =>
                \/ out[p].score > out[q].score
                \/ /\ out[p].score = out[q].score
                   /\ IndexOf(rules, out[p]) < IndexOf(rules, out[q])

\* C3 witness: two rules with equal scores were both suggested, behind a
\* rule with a higher score that comes later in the configuration.
C3_Witness ==
    /\ pc = "returned"
    /\ Len(out) = 3
    /\ out[1].score > out[2].score
    /\ out[2].score = out[3].score
    /\ IndexOf(rules, out[1]) > IndexOf(rules, out[3])

\* C4: the result is the first min(limit, m) entries of the ranking of the
\* m matching rules: empty for limit 0, every matching rule exactly once
\* and no other rule when limit >= number of rules, and a rule cut off
\* never scores higher than a rule kept.
C4_TruncatedRanking ==
    pc = "returned" =>
        LET m == Cardinality(Matching(rules, ctx))
            kept == {IndexOf(rules, out[p]) : p \in DOMAIN out}
        IN  /\ Len(out) = Min(max, m)
            /\ max = 0 => out = <<>>
            /\ kept \subseteq Matching(rules, ctx)
            /\ Cardinality(kept) = Len(out)
            /\ \A p \in DOMAIN out :
                   /\ out[p].rule = rules[IndexOf(rules, out[p])]
                   /\ Some(out[p].score) = ScoreOf(rules, IndexOf(rules, out[p]), ctx)
            /\ max >= Len(rules) => kept = Matching(rules, ctx)
            /\ \A i \in Matching(rules, ctx) \ kept :
                   \A p \in DOMAIN out : out[p].score >= ScoreOf(rules, i, ctx).val

\* C4 witness: three rules match and the limit 2 cut one of them off.
C4_Witness ==
    /\ pc = "returned"
    /\ max = 2
    /\ Cardinality(Matching(rules, ctx)) = 3
    /\ Len(out) = 2

\* C5: every matching pinned rule scores strictly higher than every
\* matching unpinned rule, and no unpinned rule is ranked before a pinned
\* rule.
C5_PinnedOutranks ==
    pc = "returned" =>
        /\ \A i, j \in Matching(rules, ctx) :
               (rules[i].pinned /\ ~rules[j].pinned) =>
                   ScoreOf(rules, i, ctx).val > ScoreOf(rules, j, ctx).val
        /\ \A p, q \in DOMAIN out :
               p < q => ~(~out[p].rule.pinned /\ out[q].rule.pinned)

\* the rule list without the rules whose pattern does not compile
RECURSIVE WithoutUncompilable(_)
WithoutUncompilable(rs) ==
    IF rs = <<>> THEN <<>>
    ELSE IF Uncompilable(Head(rs)) THEN WithoutUncompilable(Tail(rs))
    ELSE <<Head(rs)>> \o WithoutUncompilable(Tail(rs))

\* C7: a rule whose pattern does not compile is never suggested, in any
\* context and on any evaluation, and the suggestions are those of the
\* rule list without it.
C7_UncompilableIsAbsent ==
    pc = "returned" =>
        /\ \A p \in DOMAIN out : ~Uncompilable(out[p].rule)
        /\ out = suggest_rules(WithoutUncompilable(rules), ctx, max, cells).out

\* C7 witness: a pass over a list that holds a pinned rule with an
\* uncompilable pattern returned the other rules, on a later evaluation
\* (the rule's cell was initialised before).
C7_Witness ==
    /\ pc = "returned"
    /\ Len(rules) >= 2
    /\ Uncompilable(rules[1])
    /\ cells[1].state = "init"
    /\ ~cells[1].value.some
    /\ Len(out) = Len(rules) - 1

\* C9: a scoring pass leaves the rules unchanged, the rules it returns are
\* the configured rules, and its result is the result of the same call on
\* rules no pass has touched yet.
C9_PassesArePure ==
    /\ [][rules' = rules]_vars
    /\ [](pc = "returned" =>
            /\ \A p \in DOMAIN out : \E i \in DOMAIN rules : out[p].rule = rules[i]
            /\ out = suggest_rules(rules, ctx, max, FreshCells(rules)).out)

\* C9 witness: a pass returned suggestions after an earlier pass with
\* another context had filled the cell of a rule (this pass does not reach
\* that rule's pattern).
C9_Witness ==
    /\ pc = "returned"
    /\ Len(out) >= 1
    /\ \E i \in DOMAIN rules :
          /\ rules[i].matchers.regex.some
          /\ ~reaches_regex(rules[i], ctx)
          /\ cells[i].state = "init"
          /\ cells[i].value.some

----------------------------------------------------------------------------
(* SpecThreads: several threads run suggest_rules over the same rule list, *)
(* each with its own MatchContext. The steps of a pass are its iterations  *)
(* over the rules; once_cell's sync::OnceCell::get_or_init runs the        *)
(* closure in one thread while the cell is "running", and the threads that *)
(* find the cell running wait for it.                                      *)

ThreadTemplates ==
    {[pinned |-> TRUE, matchers |-> Matchers(NoVec, NoVec, NoString)],
     [pinned |-> FALSE, matchers |-> Matchers(Some(<<"Json">>), NoVec, Some(<<"a">>))],
     [pinned |-> FALSE, matchers |-> Matchers(NoVec, NoVec, Some(<<".", "b">>))],
     [pinned |-> TRUE, matchers |-> Matchers(NoVec, NoVec, Some(<<"(", "a">>))]}

ThreadRuleLists ==
    {LoadRules(ts) : ts \in {<<a, b>> : a \in ThreadTemplates, b \in ThreadTemplates}}

InitThreads ==
    /\ rules \in ThreadRuleLists
    /\ cells = FreshCells(rules)
    /\ self = 1
    /\ ctx = NoContext
    /\ max = 0
    /\ ret = NoScore
    /\ out = <<>>
    /\ pc = "idle"
    /\ thr = NoThreads
    /\ NoText

\* a plausible bug: the cell is not locked while its closure runs
may_begin_init_unlocked(cell) == cell.state # "init"

\* get_or_init runs the closure only in the thread that finds the cell empty
may_begin_init(cell) == cell.state = "uninit"

\* the thread calls suggest_rules(&rules, &ctx, n) with its own context
StartPass(t) ==
    /\ thr[t].pc \in {"idle", "done"}
    /\ \E c \in PassContexts, n \in 1..2 :
          thr' = [thr EXCEPT ![t] =
                    [pc |-> "scan", ctx |-> c, max |-> n, i |-> 1,
                     acc |-> <<>>, out |-> <<>>]]
    /\ UNCHANGED <<rules, cells, self, ctx, max, ret, out, pc, textVars>>

\* the locals of thread t after rule.matches returned s for rule i
Scored(t, s) ==
    [thr[t] EXCEPT !.pc = "scan",
                   !.i = @ + 1,
                   !.acc = IF s.some
                           THEN Append(@, Suggestion(rules[thr[t].i], s.val))
                           ELSE @]

\* rule.matches for the next rule, when it returns before the regex clause
\* or finds the compiled pattern in the cell
ScoreRule(t) ==
    /\ thr[t].pc = "scan"
    /\ thr[t].i <= Len(rules)
    /\ LET r == rules[thr[t].i]
           cell == cells[r.compiled_regex]
       IN  \/ /\ ~reaches_regex(r, thr[t].ctx)
              /\ thr' = [thr EXCEPT ![t] = Scored(t, matches_with(r, thr[t].ctx, NoRegex))]
           \/ /\ reaches_regex(r, thr[t].ctx)
              /\ cell.state = "init"
              /\ thr' = [thr EXCEPT ![t] = Scored(t, matches_with(r, thr[t].ctx, cell.value))]
    /\ UNCHANGED <<rules, cells, self, ctx, max, ret, out, pc, textVars>>

\* get_or_init finds the cell empty: this thread will run the closure
BeginInit(t) ==
    /\ thr[t].pc = "scan"
    /\ thr[t].i <= Len(rules)
    /\ LET r == rules[thr[t].i]
       IN  /\ reaches_regex(r, thr[t].ctx)
           /\ may_begin_init(cells[r.compiled_regex])
           /\ cells' = [cells EXCEPT ![r.compiled_regex].state = "running"]
    /\ thr' = [thr EXCEPT ![t].pc = "compiling"]
    /\ UNCHANGED <<rules, self, ctx, max, ret, out, pc, textVars>>

\* the closure returns: the cell is set, and matches goes on with the value
FinishInit(t) ==
    /\ thr[t].pc = "compiling"
    /\ LET r == rules[thr[t].i]
           v == compile_pattern(r)
       IN  /\ cells' = [cells EXCEPT ![r.compiled_regex] =
                           [state |-> "init", value |-> v, inits |-> @.inits + 1]]
           /\ thr' = [thr EXCEPT ![t] = Scored(t, matches_with(r, thr[t].ctx, v))]
    /\ UNCHANGED <<rules, self, ctx, max, ret, out, pc, textVars>>

\* the sort, the truncation and the return
FinishPass(t) ==
    /\ thr[t].pc = "scan"
    /\ thr[t].i > Len(rules)
    /\ thr' = [thr EXCEPT ![t].pc = "done",
                          ![t].out = truncate(sort_by_score(thr[t].acc), thr[t].max)]
    /\ UNCHANGED <<rules, cells, self, ctx, max, ret, out, pc, textVars>>

NextThreads ==
    \E t \in Threads :
        \/ StartPass(t)
        \/ ScoreRule(t)
        \/ BeginInit(t)
        \/ FinishInit(t)
        \/ FinishPass(t)

SpecThreads == InitThreads /\ [][NextThreads]_vars

\* C10: under every interleaving each pass returns what it returns when
\* run alone, every cell is initialised at most once, to the compiled
\* pattern of its rule, and an initialised cell never changes.
C10_ConcurrentPasses ==
    /\ [](\A t \in Threads :
            thr[t].pc = "done" =>
                thr[t].out =
                    suggest_rules(rules, thr[t].ctx, thr[t].max, FreshCells(rules)).out)
    /\ [](\A a \in DOMAIN cells :
            /\ cells[a].inits <= 1
            /\ cells[a].state = "init" => cells[a].value = compile_pattern(rules[a]))
    /\ [][\A a \in DOMAIN cells : cells[a].state = "init" => cells'[a] = cells[a]]_vars

\* C10 witness: a thread waits at a rule whose cell another thread is
\* initialising, while that cell's pattern is being compiled.
C10_Witness ==
    \E t, u \in Threads :
        /\ t # u
        /\ thr[t].pc = "compiling"
        /\ thr[u].pc = "scan"
        /\ thr[u].i = thr[t].i
        /\ thr[u].ctx # thr[t].ctx
        /\ reaches_regex(rules[thr[u].i], thr[u].ctx)
        /\ cells[rules[thr[t].i].compiled_regex].state = "running"
        /\ Len(thr[u].acc) >= 1

----------------------------------------------------------------------------
(* SpecCache: Rule instances that are matched, cloned and edited. Clone is *)
(* derived: the clone's Arc points to the cell of the original. The        *)
(* pattern text is the public field matchers.regex: assigning it touches   *)
(* nothing else.                                                           *)

CachePatterns == {Some(<<"a">>), Some(<<"^", "b">>), Some(<<"(", "a">>)}

CacheContexts == {MatchContext(t, <<"Text">>, NoString) : t \in {<<"a">>, <<"b">>}}

InitCache ==
    /\ \E p \in CachePatterns :
          rules = <<Rule("r1", FALSE, Matchers(NoVec, NoVec, p), 1)>>
    /\ cells = <<EmptyCell>>
    /\ self = 1
    /\ ctx = NoContext
    /\ max = 0
    /\ ret = NoScore
    /\ out = <<>>
    /\ pc = "ready"
    /\ thr = NoThreads
    /\ NoText

\* rules[i].matches(&c)
CacheMatches ==
    /\ \E i \in DOMAIN rules, c \in CacheContexts :
          LET r == matches(rules[i], c, cells)
          IN  /\ self' = i
              /\ ctx' = c
              /\ ret' = r.ret
              /\ cells' = r.cells
    /\ pc' = "returned"
    /\ UNCHANGED <<rules, max, out, thr, textVars>>

\* rules[i].clone()
CloneRule ==
    /\ Len(rules) < MaxInstances
    /\ \E i \in DOMAIN rules : rules' = Append(rules, rules[i])
    /\ pc' = "ready"
    /\ UNCHANGED <<cells, self, ctx, max, ret, out, thr, textVars>>

\* rules[i].matchers.regex = p
EditPattern ==
    /\ \E i \in DOMAIN rules, p \in CachePatterns :
          /\ p # rules[i].matchers.regex
          /\ rules' = [rules EXCEPT ![i].matchers.regex = p]
    /\ pc' = "ready"
    /\ UNCHANGED <<cells, self, ctx, max, ret, out, thr, textVars>>

NextCache == CacheMatches \/ CloneRule \/ EditPattern

SpecCache == InitCache /\ [][NextCache]_vars

\* C8: after any matches calls, clones and edits of the pattern text, a
\* matches call returns what an uncached rule returns that compiles its
\* current pattern on the call.
C8_CacheFollowsPattern ==
    pc = "returned" =>
        ret = matches_with(rules[self], ctx, compile_pattern(rules[self]))

----------------------------------------------------------------------------
(* Rust str over the model's characters: a text is a sequence of           *)
(* one-character strings.  The characters outside ASCII are named by       *)
(* their code point.                                                       *)

\* char::is_whitespace and the regex class \s
WhiteSpace == {" ", "\t", "\n", "\r"}

\* char::is_ascii_digit and the regex class \d restricted to ASCII
Digits == {"0", "1", "2", "3", "4", "5", "6", "7", "8", "9"}

DigitVal(c) ==
    CASE c = "0" -> 0 [] c = "1" -> 1 [] c = "2" -> 2 [] c = "3" -> 3
      [] c = "4" -> 4 [] c = "5" -> 5 [] c = "6" -> 6 [] c = "7" -> 7
      [] c = "8" -> 8 [] c = "9" -> 9

DigitChar(d) == <<"0", "1", "2", "3", "4", "5", "6", "7", "8", "9">>[d + 1]

SetMin(S) == CHOOSE x \in S : \A y \in S : x <= y
SetMax(S) == CHOOSE x \in S : \A y \in S : y <= x

is_blank(s) == \A i \in 1..Len(s) : s[i] \in WhiteSpace

\* str::trim_start
trim_start(s) ==
    IF is_blank(s) THEN <<>>
    ELSE SubSeq(s, SetMin({i \in 1..Len(s) : s[i] \notin WhiteSpace}), Len(s))

\* str::trim_end
trim_end(s) ==
    IF is_blank(s) THEN <<>>
    ELSE SubSeq(s, 1, SetMax({i \in 1..Len(s) : s[i] \notin WhiteSpace}))

\* str::trim
trim(s) == trim_start(trim_end(s))

\* str::starts_with
starts_with(s, prefix) ==
    /\ Len(prefix) <= Len(s)
    /\ SubSeq(s, 1, Len(prefix)) = prefix

\* str::replace("\r\n", "\n")
RECURSIVE replace_crlf(_)
replace_crlf(s) ==
    IF s = <<>> THEN <<>>
    ELSE IF Len(s) >= 2 /\ s[1] = "\r" /\ s[2] = "\n"
         THEN <<"\n">> \o replace_crlf(SubSeq(s, 3, Len(s)))
         ELSE <<s[1]>> \o replace_crlf(Tail(s))

\* str::replace('\r', "\n")
replace_cr(s) == [i \in 1..Len(s) |-> IF s[i] = "\r" THEN "\n" ELSE s[i]]

\* one item of str::lines: the terminator "\n" or "\r\n" is removed
strip_line_end(line) ==
    IF line # <<>> /\ line[Len(line)] = "\r" THEN SubSeq(line, 1, Len(line) - 1)
    ELSE line

\* str::lines: split after every "\n"; a last piece without "\n" is a line
\* when it is not empty
RECURSIVE lines_from(_, _)
lines_from(s, i) ==
    IF i > Len(s) THEN <<>>
    ELSE LET breaks == {j \in i..Len(s) : s[j] = "\n"}
         IN  IF breaks = {} THEN <<SubSeq(s, i, Len(s))>>
             ELSE <<strip_line_end(SubSeq(s, i, SetMin(breaks) - 1))>>
                      \o lines_from(s, SetMin(breaks) + 1)

lines(s) == lines_from(s, 1)

\* [String]::join
RECURSIVE join(_, _)
join(v, sep) ==
    IF v = <<>> THEN <<>>
    ELSE IF Len(v) = 1 THEN v[1]
    ELSE v[1] \o sep \o join(Tail(v), sep)

----------------------------------------------------------------------------
(* transforms.rs: normalize_whitespace.                                    *)

\* while lines.first() is blank: lines.remove(0)
RECURSIVE drop_leading_blank(_)
drop_leading_blank(v) ==
    IF v # <<>> /\ is_blank(v[1]) THEN drop_leading_blank(Tail(v)) ELSE v

\* while lines.last() is blank: lines.pop()
RECURSIVE drop_trailing_blank(_)
drop_trailing_blank(v) ==
    IF v # <<>> /\ is_blank(v[Len(v)])
    THEN drop_trailing_blank(SubSeq(v, 1, Len(v) - 1))
    ELSE v

\* the number of "\n" at the head of s
RECURSIVE newline_run(_)
newline_run(s) ==
    IF s # <<>> /\ s[1] = "\n" THEN 1 + newline_run(Tail(s)) ELSE 0

\* a variant that keeps every run of line breaks
collapse_newlines_off(s) == s

\* Regex \n{3,} replace_all with "\n\n"
RECURSIVE collapse_newlines(_)
collapse_newlines(s) ==
    IF s = <<>> THEN <<>>
    ELSE LET k == newline_run(s)
         IN  IF k >= 3 THEN <<"\n", "\n">> \o collapse_newlines(SubSeq(s, k + 1, Len(s)))
             ELSE IF k >= 1 THEN SubSeq(s, 1, k) \o collapse_newlines(SubSeq(s, k + 1, Len(s)))
             ELSE <<s[1]>> \o collapse_newlines(Tail(s))

\* a variant that also removes the leading whitespace of every line
normalize_whitespace_trim_both(in) ==
    LET normalized == replace_cr(replace_crlf(in))
        ls == lines(normalized)
        trimmed == [i \in 1..Len(ls) |-> trim(ls[i])]
        kept == drop_trailing_blank(drop_leading_blank(trimmed))
    IN  collapse_newlines(join(kept, <<"\n">>))

normalize_whitespace(in) ==
    LET normalized == replace_cr(replace_crlf(in))
        ls == lines(normalized)
        trimmed == [i \in 1..Len(ls) |-> trim_end(ls[i])]
        kept == drop_trailing_blank(drop_leading_blank(trimmed))
    IN  collapse_newlines(join(kept, <<"\n">>))

----------------------------------------------------------------------------
(* serde_json::Value, from_str, to_string, to_string_pretty.               *)
(*                                                                         *)
(* A Value is [t, s, kids]: t is the variant, s the text of a scalar (the  *)
(* digits of a Number as serde_json prints them, the decoded characters    *)
(* of a String), kids the entries [k, v] of an Array (k empty) or of an    *)
(* Object.  An Object is a Map<String, Value>: its entries are kept sorted *)
(* by key and a repeated key replaces the earlier value.  Numbers are the  *)
(* decimal literals without exponent that fit u64, i64 or a short f64;     *)
(* string escapes are \" \\ \/ \n \t \r.                                   *)

\* the characters of the model in code point order
Chars ==
    <<"\t", "\n", "\r", " ", "\"", "#", "'", "*", "+", ",", "-", ".",
      "/", "0", "1", "2", "3", "4", "5", "6", "7", "8", "9", ":",
      "N", "O", "T", "Z", "[", "\\", "]", "a", "b", "c", "d", "e",
      "f", "h", "i", "k", "l", "m", "n", "o", "r", "s", "t", "u",
      "v", "w", "x", "y", "z", "{", "}", "~", "U+00A2", "U+00E2", "U+2022", "U+20AC">>

CharRank(c) == CHOOSE i \in 1..Len(Chars) : Chars[i] = c

\* Ord for String: lexicographic by character
RECURSIVE str_lt(_, _)
str_lt(a, b) ==
    IF b = <<>> THEN FALSE
    ELSE IF a = <<>> THEN TRUE
    ELSE IF a[1] = b[1] THEN str_lt(Tail(a), Tail(b))
    ELSE CharRank(a[1]) < CharRank(b[1])

JValue(t, s, kids) == [t |-> t, s |-> s, kids |-> kids]
JNull == JValue("null", <<>>, <<>>)
JBool(b) == JValue("bool", IF b THEN <<"t", "r", "u", "e">> ELSE <<"f", "a", "l", "s", "e">>, <<>>)
JNumber(digits) == JValue("number", digits, <<>>)
JString(s) == JValue("string", s, <<>>)
JArray(kids) == JValue("array", <<>>, kids)
JObject(kids) == JValue("object", <<>>, kids)
Entry(k, v) == [k |-> k, v |-> v]

\* the result of a failed parse of a value, and of a string
JFail == [ok |-> FALSE, val |-> JNull, pos |-> 0]
SFail == [ok |-> FALSE, val |-> <<>>, pos |-> 0]
JOk(v, pos) == [ok |-> TRUE, val |-> v, pos |-> pos]

\* Map::insert: the entries stay sorted by key, a present key is replaced
map_insert(kids, k, v) ==
    LET before == SelectSeq(kids, LAMBDA e : str_lt(e.k, k))
        after == SelectSeq(kids, LAMBDA e : str_lt(k, e.k))
    IN  before \o <<Entry(k, v)>> \o after

\* the first position at or after i that holds no JSON whitespace
RECURSIVE skip_ws(_, _)
skip_ws(s, i) ==
    IF i <= Len(s) /\ s[i] \in {" ", "\t", "\n", "\r"} THEN skip_ws(s, i + 1) ELSE i

\* the end of the run of digits that starts at i
RECURSIVE skip_digits(_, _)
skip_digits(s, i) ==
    IF i <= Len(s) /\ s[i] \in Digits THEN skip_digits(s, i + 1) ELSE i

\* the fraction digits of a short f64 as serde_json prints them
RECURSIVE strip_trailing_zeros(_)
strip_trailing_zeros(frac) ==
    IF Len(frac) > 1 /\ frac[Len(frac)] = "0"
    THEN strip_trailing_zeros(SubSeq(frac, 1, Len(frac) - 1))
    ELSE frac

\* a number literal at i: -? (0 | [1-9][0-9]*) (. [0-9]+)?
parse_number(s, i) ==
    LET neg == s[i] = "-"
        a == IF neg THEN i + 1 ELSE i
        b == skip_digits(s, a)
        int == SubSeq(s, a, b - 1)
        sign == IF neg THEN <<"-">> ELSE <<>>
    IN  IF b = a THEN JFail
        ELSE IF Len(int) > 1 /\ int[1] = "0" THEN JFail
        ELSE IF b <= Len(s) /\ s[b] = "."
             THEN LET c == skip_digits(s, b + 1)
                      frac == SubSeq(s, b + 1, c - 1)
                  IN  IF c = b + 1 THEN JFail
                      ELSE JOk(JNumber(sign \o int \o <<".">> \o strip_trailing_zeros(frac)), c)
             ELSE IF neg /\ int = <<"0">>
                  THEN JOk(JNumber(<<"-", "0", ".", "0">>), b)
                  ELSE JOk(JNumber(sign \o int), b)

\* the characters of a string whose opening quote is before i
RECURSIVE parse_string(_, _, _)
parse_string(s, i, acc) ==
    IF i > Len(s) THEN SFail
    ELSE IF s[i] = "\"" THEN [ok |-> TRUE, val |-> acc, pos |-> i + 1]
    ELSE IF s[i] \in {"\n", "\t", "\r"} THEN SFail
    ELSE IF s[i] = "\\"
         THEN IF i + 1 > Len(s) THEN SFail
              ELSE CASE s[i + 1] \in {"\"", "\\", "/"} ->
                            parse_string(s, i + 2, Append(acc, s[i + 1]))
                     [] s[i + 1] = "n" -> parse_string(s, i + 2, Append(acc, "\n"))
                     [] s[i + 1] = "t" -> parse_string(s, i + 2, Append(acc, "\t"))
                     [] s[i + 1] = "r" -> parse_string(s, i + 2, Append(acc, "\r"))
                     [] OTHER -> SFail
         ELSE parse_string(s, i + 1, Append(acc, s[i]))

parse_literal(s, i, word, v) ==
    IF SubSeq(s, i, Min(Len(s), i + Len(word) - 1)) = word
    THEN JOk(v, i + Len(word))
    ELSE JFail

RECURSIVE parse_value(_, _)
RECURSIVE parse_elements(_, _, _)
RECURSIVE parse_members(_, _, _)

\* the elements of an array after "[" or ",": a value, then "," or "]"
parse_elements(s, i, acc) ==
    LET r == parse_value(s, i)
    IN  IF ~r.ok THEN JFail
        ELSE LET j == skip_ws(s, r.pos)
                 acc2 == Append(acc, Entry(<<>>, r.val))
             IN  IF j > Len(s) THEN JFail
                 ELSE IF s[j] = "," THEN parse_elements(s, j + 1, acc2)
                 ELSE IF s[j] = "]" THEN JOk(JArray(acc2), j + 1)
                 ELSE JFail

\* the members of an object after "{" or ",": a key, ":", a value, then
\* "," or "}"
parse_members(s, i, acc) ==
    LET a == skip_ws(s, i)
    IN  IF a > Len(s) \/ s[a] # "\"" THEN JFail
        ELSE LET key == parse_string(s, a + 1, <<>>)
                 b == skip_ws(s, key.pos)
             IN  IF ~key.ok \/ b > Len(s) \/ s[b] # ":" THEN JFail
                 ELSE LET r == parse_value(s, b + 1)
                          j == skip_ws(s, r.pos)
                          acc2 == map_insert(acc, key.val, r.val)
                      IN  IF ~r.ok \/ j > Len(s) THEN JFail
                          ELSE IF s[j] = "," THEN parse_members(s, j + 1, acc2)
                          ELSE IF s[j] = "}" THEN JOk(JObject(acc2), j + 1)
                          ELSE JFail

parse_value(s, i0) ==
    LET i == skip_ws(s, i0)
    IN  IF i > Len(s) THEN JFail
        ELSE CASE s[i] = "n" -> parse_literal(s, i, <<"n", "u", "l", "l">>, JNull)
               [] s[i] = "t" -> parse_literal(s, i, <<"t", "r", "u", "e">>, JBool(TRUE))
               [] s[i] = "f" -> parse_literal(s, i, <<"f", "a", "l", "s", "e">>, JBool(FALSE))
               [] s[i] = "\"" ->
                      LET r == parse_string(s, i + 1, <<>>)
                      IN  IF r.ok THEN JOk(JString(r.val), r.pos) ELSE JFail
               [] s[i] = "[" ->
                      LET j == skip_ws(s, i + 1)
                      IN  IF j <= Len(s) /\ s[j] = "]" THEN JOk(JArray(<<>>), j + 1)
                          ELSE parse_elements(s, i + 1, <<>>)
               [] s[i] = "{" ->
                      LET j == skip_ws(s, i + 1)
                      IN  IF j <= Len(s) /\ s[j] = "}" THEN JOk(JObject(<<>>), j + 1)
                          ELSE parse_members(s, i + 1, <<>>)
               [] s[i] = "-" \/ s[i] \in Digits -> parse_number(s, i)
               [] OTHER -> JFail

\* the value r ends the text s, but for whitespace
json_document(s, r) ==
    IF r.ok /\ skip_ws(s, r.pos) > Len(s) THEN [ok |-> TRUE, val |-> r.val]
    ELSE [ok |-> FALSE, val |-> JNull]

\* serde_json::from_str::<Value>: one value, then only whitespace
json_from_str(s) == json_document(s, parse_value(s, 1))

\* a string as serde_json writes it: quoted, with " \ and the control
\* characters escaped
RECURSIVE json_escape(_)
json_escape(s) ==
    IF s = <<>> THEN <<>>
    ELSE (CASE s[1] = "\"" -> <<"\\", "\"">>
            [] s[1] = "\\" -> <<"\\", "\\">>
            [] s[1] = "\n" -> <<"\\", "n">>
            [] s[1] = "\t" -> <<"\\", "t">>
            [] s[1] = "\r" -> <<"\\", "r">>
            [] OTHER -> <<s[1]>>) \o json_escape(Tail(s))

json_quote(s) == <<"\"">> \o json_escape(s) \o <<"\"">>

\* n levels of the pretty printer's indent of two spaces
indent(n) == [i \in 1..(2 * n) |-> " "]

RECURSIVE to_string(_)
RECURSIVE to_string_pretty_at(_, _)

\* serde_json::to_string: the compact form
to_string(v) ==
    CASE v.t = "string" -> json_quote(v.s)
      [] v.t = "array" ->
             <<"[">> \o join([i \in 1..Len(v.kids) |-> to_string(v.kids[i].v)], <<",">>)
                     \o <<"]">>
      [] v.t = "object" ->
             <<"{">> \o join([i \in 1..Len(v.kids) |->
                                 json_quote(v.kids[i].k) \o <<":">> \o to_string(v.kids[i].v)],
                             <<",">>)
                     \o <<"}">>
      [] OTHER -> v.s \o (IF v.t = "null" THEN <<"n", "u", "l", "l">> ELSE <<>>)

\* the pretty form of v when v starts at nesting level n
to_string_pretty_at(v, n) ==
    CASE v.t = "array" /\ v.kids # <<>> ->
             <<"[", "\n">>
             \o join([i \in 1..Len(v.kids) |->
                         indent(n + 1) \o to_string_pretty_at(v.kids[i].v, n + 1)],
                     <<",", "\n">>)
             \o <<"\n">> \o indent(n) \o <<"]">>
      [] v.t = "object" /\ v.kids # <<>> ->
             <<"{", "\n">>
             \o join([i \in 1..Len(v.kids) |->
                         indent(n + 1) \o json_quote(v.kids[i].k) \o <<":", " ">>
                         \o to_string_pretty_at(v.kids[i].v, n + 1)],
                     <<",", "\n">>)
             \o <<"\n">> \o indent(n) \o <<"}">>
      [] OTHER -> to_string(v)

\* a pretty printer that writes the compact form
to_string_pretty_flat(v) == to_string(v)

\* serde_json::to_string_pretty
to_string_pretty(v) == to_string_pretty_at(v, 0)

----------------------------------------------------------------------------
(* serde_yaml: to_string of a serde_json::Value.                           *)
(*                                                                         *)
(* The emitter writes block style: one "key: value" line per entry of a    *)
(* mapping, one "- item" line per element of a sequence, a nested mapping  *)
(* indented by two, a nested sequence under its key without indent, an     *)
(* empty collection as [] or {}.  A string is written plain when a reader  *)
(* would take the plain text for that same string, and single-quoted       *)
(* otherwise.  The strings of the model have no line break.                *)

\* plain text that a reader resolves to null, a boolean or a number
yaml_null_words ==
    {<<>>, <<"~">>, <<"n", "u", "l", "l">>}

yaml_bool_words ==
    {<<"t", "r", "u", "e">>, <<"f", "a", "l", "s", "e">>}

\* [-+]? digits (. digits)? : the numbers of the model; digits that start
\* with a zero and go on are a string
yaml_is_number(s) ==
    LET a == IF s # <<>> /\ s[1] \in {"-", "+"} THEN 2 ELSE 1
        b == skip_digits(s, a)
    IN  /\ b > a
        /\ \/ b > Len(s) /\ ~(b > a + 1 /\ s[a] = "0")
           \/ /\ b <= Len(s)
              /\ s[b] = "."
              /\ skip_digits(s, b + 1) > Len(s)
              /\ b + 1 <= Len(s)

\* the characters that cannot start a plain scalar
yaml_start_indicators ==
    {"#", ",", "[", "]", "{", "}", "&", "*", "!", "|", ">", "'", "\"", "%", "@"}

\* is there an i with s[i] = ":" followed by a space or the end, or a "#"
\* after a space
yaml_has_break(s) ==
    \E i \in 1..Len(s) :
        \/ s[i] = ":" /\ (i = Len(s) \/ s[i + 1] = " ")
        \/ s[i] = "#" /\ i > 1 /\ s[i - 1] = " "

\* may the string be written as a plain scalar of a block
yaml_plain_allowed(s) ==
    /\ s # <<>>
    /\ s[1] # " " /\ s[Len(s)] # " "
    /\ s[1] \notin yaml_start_indicators
    /\ ~(s[1] \in {"-", "?", ":"} /\ (Len(s) = 1 \/ s[2] = " "))
    /\ ~starts_with(s, <<"-", "-", "-">>)
    /\ ~starts_with(s, <<".", ".", ".">>)
    /\ ~yaml_has_break(s)
    /\ s \notin yaml_null_words
    /\ s \notin yaml_bool_words
    /\ ~yaml_is_number(s)

RECURSIVE double_quotes(_)
double_quotes(s) ==
    IF s = <<>> THEN <<>>
    ELSE (IF s[1] = "'" THEN <<"'", "'">> ELSE <<s[1]>>) \o double_quotes(Tail(s))

\* a string scalar that always keeps its plain form
yaml_string_always_plain(s) == s

\* a string scalar as the emitter writes it
yaml_string(s) ==
    IF yaml_plain_allowed(s) THEN s ELSE <<"'">> \o double_quotes(s) \o <<"'">>

\* the one-line form of a scalar or of an empty collection
yaml_inline(v) ==
    CASE v.t = "string" -> yaml_string(v.s)
      [] v.t = "null" -> <<"n", "u", "l", "l">>
      [] v.t = "array" -> <<"[", "]">>
      [] v.t = "object" -> <<"{", "}">>
      [] OTHER -> v.s

yaml_is_inline(v) == v.t \notin {"array", "object"} \/ v.kids = <<>>

\* the lines of v shifted right by two columns
shift_lines(ls) == [i \in 1..Len(ls) |-> <<" ", " ">> \o ls[i]]

\* the concatenation of a sequence of sequences
RECURSIVE flatten(_)
flatten(vs) == IF vs = <<>> THEN <<>> ELSE vs[1] \o flatten(Tail(vs))

RECURSIVE yaml_lines(_)

\* the lines of one element of a sequence: "- " before its first line
yaml_item_lines(v) ==
    LET ls == yaml_lines(v)
    IN  <<(<<"-", " ">> \o ls[1])>> \o shift_lines(Tail(ls))

\* the lines of one entry of a mapping
yaml_entry_lines(e) ==
    LET key == yaml_string(e.k) \o <<":">>
    IN  IF yaml_is_inline(e.v) THEN <<key \o <<" ">> \o yaml_inline(e.v)>>
        ELSE IF e.v.t = "array" THEN <<key>> \o yaml_lines(e.v)
        ELSE <<key>> \o shift_lines(yaml_lines(e.v))

\* the lines of a value in block style
yaml_lines(v) ==
    IF yaml_is_inline(v) THEN <<yaml_inline(v)>>
    ELSE IF v.t = "array"
         THEN flatten([i \in 1..Len(v.kids) |-> yaml_item_lines(v.kids[i].v)])
         ELSE flatten([i \in 1..Len(v.kids) |-> yaml_entry_lines(v.kids[i])])

\* serde_yaml::to_string: every line ends with a line break
yaml_to_string(v) == join(yaml_lines(v), <<"\n">>) \o <<"\n">>

----------------------------------------------------------------------------
(* serde_yaml: from_str.                                                   *)
(*                                                                         *)
(* The reader covers block sequences and block mappings (nested, compact   *)
(* "- - x" and "- k: v" forms, a sequence under a key with or without      *)
(* indent), flow sequences and flow mappings, plain, single-quoted and     *)
(* double-quoted scalars, and plain scalars continued on the next line.    *)
(* An anchor, alias, tag, directive or block scalar is outside the model   *)
(* and is read as an error; a key that repeats is an error.                *)

\* a plain scalar resolved to null, a boolean, a number or a string
yaml_resolve(t) ==
    IF t \in yaml_null_words THEN JNull
    ELSE IF t \in yaml_bool_words THEN JBool(t[1] = "t")
    ELSE IF yaml_is_number(t)
         THEN LET u == IF t[1] = "+" THEN Tail(t) ELSE t
                  r == parse_number(u, 1)
              IN  IF u = <<"-", "0">> THEN JNumber(<<"0">>) ELSE r.val
         ELSE JString(t)

\* the characters of a single-quoted scalar whose opening quote is before i
RECURSIVE parse_single_quoted(_, _, _)
parse_single_quoted(s, i, acc) ==
    IF i > Len(s) THEN SFail
    ELSE IF s[i] = "'"
         THEN IF i + 1 <= Len(s) /\ s[i + 1] = "'"
              THEN parse_single_quoted(s, i + 2, Append(acc, "'"))
              ELSE [ok |-> TRUE, val |-> acc, pos |-> i + 1]
         ELSE parse_single_quoted(s, i + 1, Append(acc, s[i]))

\* a quoted scalar at i
parse_quoted(s, i) ==
    IF s[i] = "'" THEN parse_single_quoted(s, i + 1, <<>>)
    ELSE parse_string(s, i + 1, <<>>)

yaml_flow_indicators == {",", "[", "]", "{", "}"}

\* the end of a plain scalar of a flow collection that starts at i
RECURSIVE flow_plain_end(_, _)
flow_plain_end(s, i) ==
    IF i > Len(s) THEN i
    ELSE IF s[i] \in yaml_flow_indicators \cup {"\n"} THEN i
    ELSE IF s[i] = ":" /\ (i = Len(s) \/ s[i + 1] \in yaml_flow_indicators \cup WhiteSpace)
         THEN i
    ELSE flow_plain_end(s, i + 1)

\* a quoted scalar of a flow collection, read as q
flow_quoted(q) ==
    [ok |-> q.ok, val |-> JString(q.val), key |-> q.val, pos |-> q.pos]

\* a plain scalar of a flow collection with the text t, up to e
flow_plain(t, e) ==
    IF t = <<>> \/ t[1] \in yaml_start_indicators
    THEN [ok |-> FALSE, val |-> JNull, key |-> <<>>, pos |-> 0]
    ELSE [ok |-> TRUE, val |-> yaml_resolve(t), key |-> t, pos |-> e]

flow_plain_to(s, i, e) == flow_plain(trim_end(SubSeq(s, i, e - 1)), e)

\* a scalar of a flow collection at i: the text, and was it quoted
flow_scalar(s, i) ==
    IF s[i] \in {"'", "\""}
    THEN flow_quoted(parse_quoted(s, i))
    ELSE flow_plain_to(s, i, flow_plain_end(s, i))

HasKey(kids, k) == \E j \in 1..Len(kids) : kids[j].k = k

RECURSIVE flow_value(_, _)
RECURSIVE flow_elements(_, _, _)
RECURSIVE flow_members(_, _, _)

\* "," or "]" at j, after the elements acc
flow_elements_sep(s, j, acc) ==
    IF j > Len(s) THEN JFail
    ELSE IF s[j] = "," THEN flow_elements(s, j + 1, acc)
    ELSE IF s[j] = "]" THEN JOk(JArray(acc), j + 1)
    ELSE JFail

\* the element r after the elements acc
flow_elements_after(s, r, acc) ==
    IF ~r.ok THEN JFail
    ELSE flow_elements_sep(s, skip_ws(s, r.pos), Append(acc, Entry(<<>>, r.val)))

flow_elements_at(s, a, acc) ==
    IF a > Len(s) THEN JFail
    ELSE IF s[a] = "]" THEN JOk(JArray(acc), a + 1)
    ELSE flow_elements_after(s, flow_value(s, a), acc)

\* the elements of a flow sequence after "[" or ","
flow_elements(s, i, acc) == flow_elements_at(s, skip_ws(s, i), acc)

\* "," or "}" at j, after the members acc
flow_members_sep(s, j, acc) ==
    IF j > Len(s) THEN JFail
    ELSE IF s[j] = "," THEN flow_members(s, j + 1, acc)
    ELSE IF s[j] = "}" THEN JOk(JObject(acc), j + 1)
    ELSE JFail

\* the value r of the key k after the members acc
flow_members_after(s, k, r, acc) ==
    IF ~r.ok THEN JFail
    ELSE flow_members_sep(s, skip_ws(s, r.pos), map_insert(acc, k, r.val))

\* the value of a key whose ":" is at b; c is the next character
flow_member_value(s, b, c) ==
    IF c <= Len(s) /\ s[c] \in {",", "}"} THEN JOk(JNull, c)
    ELSE flow_value(s, b + 1)

\* the key k ends before b: a key without ":" has the value null
flow_member_colon(s, k, b, acc) ==
    IF b > Len(s) THEN JFail
    ELSE flow_members_after(s, k,
                            IF s[b] = ":"
                            THEN flow_member_value(s, b, skip_ws(s, b + 1))
                            ELSE JOk(JNull, b),
                            acc)

flow_member_key(s, key, acc) ==
    IF ~key.ok \/ HasKey(acc, key.key) THEN JFail
    ELSE flow_member_colon(s, key.key, skip_ws(s, key.pos), acc)

flow_members_at(s, a, acc) ==
    IF a > Len(s) THEN JFail
    ELSE IF s[a] = "}" THEN JOk(JObject(acc), a + 1)
    ELSE IF s[a] \in yaml_flow_indicators THEN JFail
    ELSE flow_member_key(s, flow_scalar(s, a), acc)

\* the members of a flow mapping after "{" or ","
flow_members(s, i, acc) == flow_members_at(s, skip_ws(s, i), acc)

flow_scalar_node(r) == IF r.ok THEN JOk(r.val, r.pos) ELSE JFail

flow_value_at(s, i) ==
    IF i > Len(s) THEN JFail
    ELSE IF s[i] = "[" THEN flow_elements(s, i + 1, <<>>)
    ELSE IF s[i] = "{" THEN flow_members(s, i + 1, <<>>)
    ELSE flow_scalar_node(flow_scalar(s, i))

\* a node of a flow collection at or after i
flow_value(s, i) == flow_value_at(s, skip_ws(s, i))

\* the lines of a document that are not blank: their indent and their text
leading_spaces(line) ==
    IF \A i \in 1..Len(line) : line[i] = " " THEN Len(line)
    ELSE SetMin({i \in 1..Len(line) : line[i] # " "}) - 1

yaml_source_lines(text) ==
    LET ls == SelectSeq(lines(text), LAMBDA l : ~is_blank(l))
    IN  [i \in 1..Len(ls) |->
            [ind |-> leading_spaces(ls[i]),
             txt |-> trim_end(SubSeq(ls[i], leading_spaces(ls[i]) + 1, Len(ls[i])))]]

\* "- item" or a lone "-"
is_seq_entry(t) == t # <<>> /\ t[1] = "-" /\ (Len(t) = 1 \/ t[2] = " ")

NoEntry == [ok |-> FALSE, key |-> <<>>, rest |-> <<>>, col |-> 0]

\* the key and the rest of the line when ":" at p ends the key
entry_at(t, key, p) ==
    LET rest == trim_start(SubSeq(t, p + 1, Len(t)))
    IN  [ok |-> TRUE, key |-> key, rest |-> rest, col |-> Len(t) - Len(rest)]

\* "key: value" or "key:" with a plain or quoted key
map_entry(t) ==
    IF t = <<>> THEN NoEntry
    ELSE IF t[1] \in {"'", "\""}
    THEN LET q == parse_quoted(t, 1)
         IN  IF ~q.ok THEN NoEntry
             ELSE LET p == skip_ws(t, q.pos)
                  IN  IF p <= Len(t) /\ t[p] = ":" /\ (p = Len(t) \/ t[p + 1] = " ")
                      THEN entry_at(t, q.val, p)
                      ELSE NoEntry
    ELSE LET P == {p \in 2..Len(t) : t[p] = ":" /\ (p = Len(t) \/ t[p + 1] = " ")}
         IN  IF P = {} \/ t[1] \in yaml_start_indicators \/ is_seq_entry(t) THEN NoEntry
             ELSE entry_at(t, trim_end(SubSeq(t, 1, SetMin(P) - 1)), SetMin(P))

\* the node r is all of the text t
whole_line(t, r) ==
    IF r.ok /\ skip_ws(t, r.pos) > Len(t) THEN JOk(r.val, 0) ELSE JFail

\* the quoted scalar q is all of the text t
whole_quoted(t, q) ==
    IF q.ok /\ q.pos > Len(t) THEN JOk(JString(q.val), 0) ELSE JFail

\* a node written on one line that is neither a sequence entry nor a
\* mapping entry
yaml_inline_node(t) ==
    IF t[1] \in {"[", "{"} THEN whole_line(t, flow_value(t, 1))
    ELSE IF t[1] \in {"'", "\""} THEN whole_quoted(t, parse_quoted(t, 1))
    ELSE IF t[1] \in yaml_start_indicators THEN JFail
    ELSE IF t[1] \in {"?", ":"} /\ (Len(t) = 1 \/ t[2] = " ") THEN JFail
    ELSE JOk(yaml_resolve(t), 0)

\* the last of the lines after i that continue a plain scalar: they are
\* indented by min at least
RECURSIVE last_continuation(_, _, _)
last_continuation(L, i, min) ==
    IF i + 1 <= Len(L) /\ L[i + 1].ind >= min THEN last_continuation(L, i + 1, min)
    ELSE i

\* the node r, followed by the line next
node_before(r, next) == IF r.ok THEN JOk(r.val, next) ELSE JFail

\* a scalar or flow node at line i whose continuation ends at line j
yaml_scalar_to(L, i, j) ==
    IF L[i].txt[1] \in {"[", "{", "'", "\""} \/ j = i
    THEN node_before(yaml_inline_node(L[i].txt), i + 1)
    ELSE IF \E k \in (i + 1)..j : map_entry(L[k].txt).ok
    THEN JFail
    ELSE node_before(yaml_inline_node(join([k \in 1..(j - i + 1) |-> L[i + k - 1].txt],
                                           <<" ">>)),
                     j + 1)

\* a scalar or flow node at line i, a plain scalar with its continuation
yaml_scalar_lines(L, i, min) == yaml_scalar_to(L, i, last_continuation(L, i, min))

RECURSIVE yaml_block(_, _, _)
RECURSIVE yaml_seq(_, _, _, _)
RECURSIVE yaml_map(_, _, _, _)

\* the entry r after the entries acc
yaml_seq_after(L, n, acc, r) ==
    IF r.ok THEN yaml_seq(L, r.pos, n, Append(acc, Entry(<<>>, r.val)))
    ELSE JFail

\* the entry at line i whose text after "-" is rest
yaml_seq_entry(L, i, n, rest) ==
    IF rest # <<>>
    THEN yaml_block([L EXCEPT ![i] = [ind |-> n + Len(L[i].txt) - Len(rest),
                                      txt |-> rest]], i, n + 1)
    ELSE IF i + 1 <= Len(L) /\ L[i + 1].ind > n
    THEN yaml_block(L, i + 1, n + 1)
    ELSE JOk(JNull, i + 1)

\* the entries of a block sequence indented by n, from line i
yaml_seq(L, i, n, acc) ==
    IF i <= Len(L) /\ L[i].ind = n /\ is_seq_entry(L[i].txt)
    THEN yaml_seq_after(L, n, acc, yaml_seq_entry(L, i, n, trim_start(Tail(L[i].txt))))
    ELSE IF i <= Len(L) /\ L[i].ind > n THEN JFail
    ELSE JOk(JArray(acc), i)

\* the value r of the key k after the entries acc
yaml_map_after(L, n, acc, k, r) ==
    IF ~r.ok THEN JFail
    ELSE yaml_map(L, r.pos, n, map_insert(acc, k, r.val))

\* the value of the entry e at line i
yaml_map_value(L, i, n, e) ==
    IF e.rest # <<>>
    THEN (IF is_seq_entry(e.rest) \/ map_entry(e.rest).ok THEN JFail
          ELSE yaml_scalar_lines([L EXCEPT ![i] = [ind |-> n + e.col, txt |-> e.rest]],
                                 i, n + 1))
    ELSE IF i + 1 <= Len(L) /\ L[i + 1].ind > n
    THEN yaml_block(L, i + 1, n + 1)
    ELSE IF i + 1 <= Len(L) /\ L[i + 1].ind = n /\ is_seq_entry(L[i + 1].txt)
    THEN yaml_seq(L, i + 1, n, <<>>)
    ELSE JOk(JNull, i + 1)

\* line i is indented by n and read as the entry e
yaml_map_entry(L, i, n, acc, e) ==
    IF ~e.ok THEN JOk(JObject(acc), i)
    ELSE IF HasKey(acc, e.key) THEN JFail
    ELSE yaml_map_after(L, n, acc, e.key, yaml_map_value(L, i, n, e))

\* the entries of a block mapping indented by n, from line i
yaml_map(L, i, n, acc) ==
    IF i <= Len(L) /\ L[i].ind = n
    THEN yaml_map_entry(L, i, n, acc, map_entry(L[i].txt))
    ELSE IF i <= Len(L) /\ L[i].ind > n THEN JFail
    ELSE JOk(JObject(acc), i)

\* the node that starts at line i
yaml_block(L, i, min) ==
    IF is_seq_entry(L[i].txt) THEN yaml_seq(L, i, L[i].ind, <<>>)
    ELSE IF map_entry(L[i].txt).ok THEN yaml_map(L, i, L[i].ind, <<>>)
    ELSE yaml_scalar_lines(L, i, min)

\* the node r ends the flow document text
flow_document(text, r) ==
    IF r.ok /\ skip_ws(text, r.pos) > Len(text)
    THEN [ok |-> TRUE, val |-> r.val]
    ELSE [ok |-> FALSE, val |-> JNull]

\* the node r ends the lines L
block_document(L, r) ==
    IF r.ok /\ r.pos > Len(L)
    THEN [ok |-> TRUE, val |-> r.val]
    ELSE [ok |-> FALSE, val |-> JNull]

yaml_block_lines(L) == block_document(L, yaml_block(L, 1, 0))

\* the document whose first character is at a
yaml_document(text, a) ==
    IF a > Len(text) THEN [ok |-> FALSE, val |-> JNull]
    ELSE IF text[a] \in {"[", "{"} THEN flow_document(text, flow_value(text, a))
    ELSE yaml_block_lines(yaml_source_lines(text))

\* serde_yaml::from_str: one document; a text without a node is the error
\* "end of stream"
yaml_from_str(text) == yaml_document(text, skip_ws(text, 1))

----------------------------------------------------------------------------
(* i64 and chrono arithmetic.  A quantity that does not fit the checker's  *)
(* integers is a decimal numeral: a sequence of digits without leading     *)
(* zeros.                                                                  *)

\* the numeral of a digit string: leading zeros removed
RECURSIVE big_norm(_)
big_norm(a) == IF Len(a) > 1 /\ a[1] = "0" THEN big_norm(Tail(a)) ELSE a

\* the numeral of a natural number
RECURSIVE big_of(_)
big_of(n) == IF n < 10 THEN <<DigitChar(n)>> ELSE big_of(n \div 10) \o <<DigitChar(n % 10)>>

big_lt(a, b) ==
    \/ Len(a) < Len(b)
    \/ /\ Len(a) = Len(b)
       /\ \E i \in 1..Len(a) :
            /\ DigitVal(a[i]) < DigitVal(b[i])
            /\ \A j \in 1..(i - 1) : a[j] = b[j]

\* a padded with zeros on the left to n digits
big_pad(a, n) == [i \in 1..(n - Len(a)) |-> "0"] \o a

\* a * k for a small natural k
RECURSIVE big_mul_from(_, _, _, _, _)
big_mul_from(a, i, k, carry, acc) ==
    IF i = 0 THEN big_norm(big_of(carry) \o acc)
    ELSE LET p == DigitVal(a[i]) * k + carry
         IN  big_mul_from(a, i - 1, k, p \div 10, <<DigitChar(p % 10)>> \o acc)

big_mul_small(a, k) == big_mul_from(a, Len(a), k, 0, <<>>)

\* a + b
RECURSIVE big_add_from(_, _, _, _, _)
big_add_from(a, b, i, carry, acc) ==
    IF i = 0 THEN big_norm(big_of(carry) \o acc)
    ELSE LET p == DigitVal(a[i]) + DigitVal(b[i]) + carry
         IN  big_add_from(a, b, i - 1, p \div 10, <<DigitChar(p % 10)>> \o acc)

big_add(a, b) ==
    LET n == IF Len(a) > Len(b) THEN Len(a) ELSE Len(b)
    IN  big_add_from(big_pad(a, n), big_pad(b, n), n, 0, <<>>)

\* a - b for a >= b
RECURSIVE big_sub_from(_, _, _, _, _)
big_sub_from(a, b, i, borrow, acc) ==
    IF i = 0 THEN big_norm(acc)
    ELSE LET p == DigitVal(a[i]) - DigitVal(b[i]) - borrow
         IN  big_sub_from(a, b, i - 1, IF p < 0 THEN 1 ELSE 0,
                          <<DigitChar(IF p < 0 THEN p + 10 ELSE p)>> \o acc)

big_sub(a, b) == big_sub_from(a, big_pad(b, Len(a)), Len(a), 0, <<>>)

\* quotient and remainder of a by a small natural k: the quotient is cut
\* at cap
RECURSIVE big_divmod_from(_, _, _, _, _, _)
big_divmod_from(a, i, k, q, r, cap) ==
    IF i > Len(a) THEN [q |-> q, r |-> r]
    ELSE LET x == r * 10 + DigitVal(a[i])
         IN  big_divmod_from(a, i + 1, k, Min(q * 10 + x \div k, cap), x % k, cap)

big_divmod_small(a, k, cap) == big_divmod_from(a, 1, k, 0, 0, cap)

\* r reduced below m by subtraction
RECURSIVE big_reduce(_, _)
big_reduce(r, m) ==
    IF big_lt(r, m) THEN r
    ELSE LET d == big_sub(r, m)
         IN  IF Len(d) > 0 THEN big_reduce(d, m) ELSE d

\* a mod m for a numeral m
RECURSIVE big_mod_from(_, _, _, _)
big_mod_from(a, i, m, r) ==
    IF i > Len(a) THEN r
    ELSE LET r2 == big_reduce(big_norm(r \o <<a[i]>>), m)
         IN  IF Len(r2) > 0 THEN big_mod_from(a, i + 1, m, r2) ELSE r2

big_mod(a, m) == big_mod_from(a, 1, m, <<"0">>)

\* i64::MAX, 2^63 and 2^64
I64Max == <<"9", "2", "2", "3", "3", "7", "2", "0", "3", "6",
            "8", "5", "4", "7", "7", "5", "8", "0", "7">>
Pow63 == big_add(I64Max, <<"1">>)
Pow64 == big_add(Pow63, Pow63)

\* a signed quantity
Signed(neg, mag) == [neg |-> neg /\ mag # <<"0">>, mag |-> mag]

\* str::parse::<i64> of a string of ASCII digits
parse_i64(digits) ==
    LET a == big_norm(digits)
    IN  IF big_lt(I64Max, a) THEN None(<<"0">>) ELSE Some(a)

\* the i64 that a product of non-negative i64 wraps to
wrapping_i64(a) ==
    LET w == big_mod(a, Pow64)
    IN  IF big_lt(w, Pow63) THEN Signed(FALSE, w) ELSE Signed(TRUE, big_sub(Pow64, w))

\* the outcomes of amount * k in i64: the product, or on overflow a panic
\* (overflow checks on) and the wrapped product (overflow checks off)
i64_mul(amount, k) ==
    LET p == big_mul_small(amount, k)
    IN  IF big_lt(I64Max, p)
        THEN {[panic |-> TRUE, val |-> Signed(FALSE, <<"0">>)],
              [panic |-> FALSE, val |-> wrapping_i64(p)]}
        ELSE {[panic |-> FALSE, val |-> Signed(FALSE, p)]}

----------------------------------------------------------------------------
(* chrono: a DateTime<Utc> is [days, sod, ms]: the days since 1970-01-01,  *)
(* the second of the day and the milliseconds of the second.               *)

DateTimeOf(days, sod, ms) == [days |-> days, sod |-> sod, ms |-> ms]

\* the days from 1970-01-01 to the civil date y-m-d
days_from_civil(y, m, d) ==
    LET y2 == IF m <= 2 THEN y - 1 ELSE y
        era == y2 \div 400
        yoe == y2 - era * 400
        doy == (153 * (IF m > 2 THEN m - 3 ELSE m + 9) + 2) \div 5 + d - 1
        doe == yoe * 365 + yoe \div 4 - yoe \div 100 + doy
    IN  era * 146097 + doe - 719468

\* the civil date of a day count
civil_from_days(z0) ==
    LET z == z0 + 719468
        era == z \div 146097
        doe == z - era * 146097
        yoe == (doe - doe \div 1460 + doe \div 36524 - doe \div 146096) \div 365
        doy == doe - (365 * yoe + yoe \div 4 - yoe \div 100)
        mp == (5 * doy + 2) \div 153
        d == doy - (153 * mp + 2) \div 5 + 1
        m == IF mp < 10 THEN mp + 3 ELSE mp - 9
    IN  [y |-> yoe + era * 400 + (IF m <= 2 THEN 1 ELSE 0), m |-> m, d |-> d]

is_leap(y) == (y % 4 = 0 /\ y % 100 # 0) \/ y % 400 = 0

days_in_month(y, m) ==
    IF m = 2 THEN (IF is_leap(y) THEN 29 ELSE 28)
    ELSE IF m \in {4, 6, 9, 11} THEN 30 ELSE 31

\* NaiveDate::MIN and NaiveDate::MAX as day counts
MinDays == days_from_civil(0 - 262143, 1, 1)
MaxDays == days_from_civil(262142, 12, 31)

\* TimeDelta::MAX in seconds: i64::MAX milliseconds
MaxDeltaSecs ==
    <<"9", "2", "2", "3", "3", "7", "2", "0", "3", "6", "8", "5", "4", "7", "7", "5">>

\* n written with two digits
pad2(n) == <<DigitChar(n \div 10), DigitChar(n % 10)>>

\* the year of an RFC 3339 date: four digits, or a sign and five or more
year_text(y) ==
    IF y >= 0 /\ y <= 9999 THEN pad2(y \div 100) \o pad2(y % 100)
    ELSE LET a == IF y < 0 THEN 0 - y ELSE y
         IN  <<(IF y < 0 THEN "-" ELSE "+")>> \o big_pad(big_of(a), IF a < 1000 THEN 4 ELSE Len(big_of(a)))

\* the RFC 3339 text of the instant dt whose civil date is c
rfc3339_text(c, dt) ==
    LET frac == IF dt.ms = 0 THEN <<>>
                ELSE <<".", DigitChar(dt.ms \div 100)>> \o pad2(dt.ms % 100)
    IN  year_text(c.y) \o <<"-">> \o pad2(c.m) \o <<"-">> \o pad2(c.d) \o <<"T">>
        \o pad2(dt.sod \div 3600) \o <<":">> \o pad2((dt.sod \div 60) % 60) \o <<":">>
        \o pad2(dt.sod % 60) \o frac \o <<"+", "0", "0", ":", "0", "0">>

\* DateTime<Utc>::to_rfc3339
to_rfc3339(dt) == rfc3339_text(civil_from_days(dt.days), dt)

\* DateTime::timestamp().to_string() of a date, a second of the day and an
\* offset east of UTC
timestamp_text(days, sod, off) ==
    LET s == sod - off
        d == days + s \div 86400
        r == s % 86400
    IN  IF d >= 0 THEN big_add(big_mul_small(big_of(d), 86400), big_of(r))
        ELSE <<"-">> \o big_sub(big_mul_small(big_of(0 - d), 86400), big_of(r))

\* DateTime::<Utc>::from_timestamp(secs, 0) and from_timestamp_millis for
\* a numeral secs that is not negative
from_timestamp(secs, ms) ==
    LET x == big_divmod_small(secs, 86400, 100000000)
    IN  IF x.q > MaxDays THEN None(DateTimeOf(0, 0, 0))
        ELSE Some(DateTimeOf(x.q, x.r, ms))

\* now + TimeDelta::seconds(secs) for a signed secs: a panic when secs is
\* no TimeDelta or the sum is no DateTime
add_seconds(now, secs) ==
    LET x == big_divmod_small(secs.mag, 86400, 100000000)
        s == IF secs.neg THEN now.sod - x.r ELSE now.sod + x.r
        d == (IF secs.neg THEN now.days - x.q ELSE now.days + x.q) + s \div 86400
    IN  IF big_lt(MaxDeltaSecs, secs.mag) THEN [panic |-> TRUE, val |-> now]
        ELSE IF d < MinDays \/ d > MaxDays THEN [panic |-> TRUE, val |-> now]
        ELSE [panic |-> FALSE, val |-> DateTimeOf(d, s % 86400, now.ms)]

AllDigits(s) == \A i \in 1..Len(s) : s[i] \in Digits

\* the value of the digits of s from a to b
digits_value(s, a, b) ==
    LET x == big_divmod_small(SubSeq(s, a, b), 1, 100000000) IN x.q

\* is s[a..b] a run of exactly n digits
digits_at(s, a, n) == a + n - 1 <= Len(s) /\ AllDigits(SubSeq(s, a, a + n - 1))

NoDate == [ok |-> FALSE, days |-> 0, sod |-> 0, off |-> 0]

\* are y-m-d and h:mi:s a date and a time of day
valid_date(y, m, d) == m >= 1 /\ m <= 12 /\ d >= 1 /\ d <= days_in_month(y, m)

\* DateTime::parse_from_rfc3339:
\* YYYY-MM-DD T hh:mm:ss [.fraction] (Z | +hh:mm | -hh:mm)
parse_from_rfc3339(s) ==
    IF ~(/\ digits_at(s, 1, 4) /\ Len(s) >= 20 /\ s[5] = "-" /\ digits_at(s, 6, 2)
         /\ s[8] = "-" /\ digits_at(s, 9, 2) /\ s[11] \in {"T", "t"}
         /\ digits_at(s, 12, 2) /\ s[14] = ":" /\ digits_at(s, 15, 2)
         /\ s[17] = ":" /\ digits_at(s, 18, 2))
    THEN NoDate
    ELSE LET y == digits_value(s, 1, 4)
             m == digits_value(s, 6, 7)
             d == digits_value(s, 9, 10)
             h == digits_value(s, 12, 13)
             mi == digits_value(s, 15, 16)
             sec == digits_value(s, 18, 19)
             z == IF s[20] = "." THEN skip_digits(s, 21) ELSE 20
             zone == SubSeq(s, z, Len(s))
             oh == digits_value(zone, 2, 3)
             om == digits_value(zone, 5, 6)
         IN  IF ~valid_date(y, m, d) \/ h > 23 \/ mi > 59 \/ sec > 60 \/ z = 21
             THEN NoDate
             ELSE IF zone \in {<<"Z">>, <<"z">>}
             THEN [ok |-> TRUE, days |-> days_from_civil(y, m, d),
                   sod |-> h * 3600 + mi * 60 + Min(sec, 59), off |-> 0]
             ELSE IF /\ Len(zone) = 6 /\ zone[1] \in {"+", "-"} /\ digits_at(zone, 2, 2)
                     /\ zone[4] = ":" /\ digits_at(zone, 5, 2) /\ oh <= 23 /\ om <= 59
             THEN [ok |-> TRUE, days |-> days_from_civil(y, m, d),
                   sod |-> h * 3600 + mi * 60 + Min(sec, 59),
                   off |-> (IF zone[1] = "-" THEN 0 - 1 ELSE 1) * (oh * 3600 + om * 60)]
             ELSE NoDate

\* NaiveDate::parse_from_str(s, "%Y-%m-%d"): %Y takes one to four digits,
\* %m and %d one or two
parse_date(s) ==
    LET a == Min(skip_digits(s, 1), 5)
        b == Min(skip_digits(s, a + 1), a + 3)
        c == Min(skip_digits(s, b + 1), b + 3)
    IN  IF /\ a > 1 /\ a <= Len(s) /\ s[a] = "-"
           /\ b > a + 1 /\ b <= Len(s) /\ s[b] = "-"
           /\ c > b + 1 /\ c = Len(s) + 1
        THEN LET y == digits_value(s, 1, a - 1)
                 m == digits_value(s, a + 1, b - 1)
                 d == digits_value(s, b + 1, c - 1)
             IN  IF valid_date(y, m, d)
                 THEN [ok |-> TRUE, days |-> days_from_civil(y, m, d), sod |-> 0, off |-> 0]
                 ELSE NoDate
        ELSE NoDate

----------------------------------------------------------------------------
(* detect.rs: normalize_timestamp and parse_relative_now.                  *)

Now3 == <<"n", "o", "w">>

\* an outcome of a call that may panic
Returns(v) == [panic |-> FALSE, val |-> v]
Panics == [panic |-> TRUE, val |-> NoString]

\* RELATIVE_NOW_RE: ^now([+-])(\d+)([smhd])$
relative_now_captures(s) ==
    IF /\ Len(s) >= 6
       /\ starts_with(s, Now3)
       /\ s[4] \in {"+", "-"}
       /\ AllDigits(SubSeq(s, 5, Len(s) - 1))
       /\ s[Len(s)] \in {"s", "m", "h", "d"}
    THEN Some([sign |-> s[4], amount |-> SubSeq(s, 5, Len(s) - 1), unit |-> s[Len(s)]])
    ELSE None([sign |-> "+", amount |-> <<"0">>, unit |-> "s"])

unit_seconds(unit) ==
    CASE unit = "s" -> 1 [] unit = "m" -> 60 [] unit = "h" -> 3600 [] unit = "d" -> 86400

\* the outcomes of parse_relative_now: None, a date, or a panic in the
\* multiplication, in Duration::seconds or in the addition
parse_relative_now(s, now) ==
    LET caps == relative_now_captures(s)
        amount == parse_i64(caps.val.amount)
    IN  IF ~caps.some \/ ~amount.some THEN {Returns(None(now))}
        ELSE {IF m.panic THEN [panic |-> TRUE, val |-> None(now)]
              ELSE LET delta == Signed(m.val.neg # (caps.val.sign = "-"), m.val.mag)
                       r == add_seconds(now, delta)
                   IN  IF r.panic THEN [panic |-> TRUE, val |-> None(now)]
                       ELSE Returns(Some(r.val))
              : m \in i64_mul(amount.val, unit_seconds(caps.val.unit))}

\* the last two branches of normalize_timestamp: the RFC 3339 reading rfc
\* of the input, then its reading date as %Y-%m-%d
absolute_timestamp(rfc, date) ==
    IF rfc.ok THEN Returns(Some(timestamp_text(rfc.days, rfc.sod, rfc.off)))
    ELSE IF date.ok THEN Returns(Some(timestamp_text(date.days, 0, 0)))
    ELSE Returns(NoString)

\* the outcomes of normalize_timestamp(input) at the wall-clock time now
normalize_timestamp(in, now) ==
    LET trimmed == trim(in)
    IN  IF trimmed = <<>> THEN {Returns(NoString)}
        ELSE IF trimmed = Now3 THEN {Returns(Some(to_rfc3339(now)))}
        ELSE {IF rel.panic THEN Panics
              ELSE IF rel.val.some THEN Returns(Some(to_rfc3339(rel.val.val)))
              ELSE IF AllDigits(trimmed)
              THEN (LET value == parse_i64(trimmed)
                        dt == IF Len(trimmed) = 13
                              THEN from_timestamp(big_norm(SubSeq(trimmed, 1, 10)),
                                                  digits_value(trimmed, 11, 13))
                              ELSE from_timestamp(value.val, 0)
                    IN  IF ~value.some \/ ~dt.some THEN Returns(NoString)
                        ELSE Returns(Some(to_rfc3339(dt.val))))
              ELSE absolute_timestamp(parse_from_rfc3339(trimmed), parse_date(trimmed))
              : rel \in parse_relative_now(trimmed, now)}

----------------------------------------------------------------------------
(* detect.rs: detect_content_types.                                        *)

is_json(in) == in # <<>> /\ json_from_str(in).ok

\* the structural markers that is_yaml requires
has_structure(in) ==
    \/ contains(in, <<":">>)
    \/ starts_with(in, <<"-">>)
    \/ contains(in, <<"\n", "-">>)
    \/ contains(in, <<"[">>)
    \/ contains(in, <<"{">>)

\* the match on the result y of serde_yaml::from_str: not a plain scalar
not_scalar(y) == y.ok /\ y.val.t \notin {"string", "number", "bool"}

is_yaml(in) ==
    /\ in # <<>>
    /\ has_structure(in)
    /\ not_scalar(yaml_from_str(in))

\* the class of BULLET_LIST_RE as the source file spells it: "-", "*" and
\* the three characters U+00E2, U+20AC, U+00A2
DetectMarkers == {"-", "*", "U+00E2", "U+20AC", "U+00A2"}

\* ^\s*(marker)\s+\S+ for a class of markers
bullet_match(line, markers) ==
    /\ ~is_blank(line)
    /\ LET i == SetMin({j \in 1..Len(line) : line[j] \notin WhiteSpace})
       IN  /\ line[i] \in markers
           /\ i + 1 <= Len(line)
           /\ line[i + 1] \in WhiteSpace
           /\ ~is_blank(SubSeq(line, i + 1, Len(line)))

is_bullet_list(in) ==
    /\ in # <<>>
    /\ Len(lines(in)) >= 2
    /\ Len(SelectSeq(lines(in), LAMBDA l : bullet_match(l, DetectMarkers))) >= 2

is_timestamp(in) ==
    /\ in # <<>>
    /\ \/ in = Now3
       \/ starts_with(in, <<"n", "o", "w", "+">>)
       \/ starts_with(in, <<"n", "o", "w", "-">>)
       \/ IF AllDigits(in) THEN Len(in) \in {10, 13}
          ELSE parse_from_rfc3339(in).ok \/ parse_date(in).ok

\* detect_content_types that tests Yaml whether or not Json matched
detect_content_types_both(in) ==
    LET trimmed == trim(in)
    IN  <<"Text">>
        \o (IF is_json(trimmed) THEN <<"Json">> ELSE <<>>)
        \o (IF is_yaml(trimmed) THEN <<"Yaml">> ELSE <<>>)
        \o (IF is_bullet_list(trimmed) THEN <<"List">> ELSE <<>>)
        \o (IF is_timestamp(trimmed) THEN <<"Timestamp">> ELSE <<>>)

\* detect_content_types that pushes Timestamp before List
detect_content_types_swapped(in) ==
    LET trimmed == trim(in)
    IN  <<"Text">>
        \o (IF is_json(trimmed) THEN <<"Json">>
            ELSE IF is_yaml(trimmed) THEN <<"Yaml">> ELSE <<>>)
        \o (IF is_timestamp(trimmed) THEN <<"Timestamp">> ELSE <<>>)
        \o (IF is_bullet_list(trimmed) THEN <<"List">> ELSE <<>>)

detect_content_types(in) ==
    LET trimmed == trim(in)
    IN  <<"Text">>
        \o (IF is_json(trimmed) THEN <<"Json">>
            ELSE IF is_yaml(trimmed) THEN <<"Yaml">> ELSE <<>>)
        \o (IF is_bullet_list(trimmed) THEN <<"List">> ELSE <<>>)
        \o (IF is_timestamp(trimmed) THEN <<"Timestamp">> ELSE <<>>)

----------------------------------------------------------------------------
(* transforms.rs: normalize_bullets and TransformKind::apply.              *)

\* the class of the bullet regex of normalize_bullets: "-", "*" and the
\* bullet U+2022
TransformMarkers == {"-", "*", "U+2022"}

\* ^(\s*)(marker)\s+(.*)$ : the indent and the content of a bullet line
bullet_captures(line) ==
    IF is_blank(line) THEN None([indent |-> <<>>, content |-> <<>>])
    ELSE LET i == SetMin({j \in 1..Len(line) : line[j] \notin WhiteSpace})
         IN  IF /\ line[i] \in TransformMarkers
                /\ i + 1 <= Len(line)
                /\ line[i + 1] \in WhiteSpace
             THEN Some([indent |-> SubSeq(line, 1, i - 1),
                        content |-> trim_start(SubSeq(line, i + 1, Len(line)))])
             ELSE None([indent |-> <<>>, content |-> <<>>])

normalize_bullets(in) ==
    LET ls == lines(replace_crlf(in))
    IN  join([i \in 1..Len(ls) |->
                 LET caps == bullet_captures(ls[i])
                 IN  IF caps.some
                     THEN caps.val.indent \o <<"-", " ">> \o trim(caps.val.content)
                     ELSE ls[i]],
             <<"\n">>)

TransformKind ==
    {"JsonPrettify", "JsonMinify", "JsonToYaml", "YamlToJson",
     "StripFormatting", "BulletNormalize", "TimestampNormalize"}

\* Result<String, TransformError>, or a panic
Ok(text) == [status |-> "ok", text |-> text, err |-> "None"]
Err(e) == [status |-> "err", text |-> <<>>, err |-> e]
Panic == [status |-> "panic", text |-> <<>>, err |-> "None"]

\* str::trim_start_matches("---\n")
RECURSIVE trim_start_matches_marker(_)
trim_start_matches_marker(s) ==
    IF starts_with(s, <<"-", "-", "-", "\n">>)
    THEN trim_start_matches_marker(SubSeq(s, 5, Len(s)))
    ELSE s

\* yaml.trim_start_matches("---\n") where the text starts with "---"
without_marker(yaml) ==
    IF starts_with(yaml, <<"-", "-", "-">>)
    THEN trim_start_matches_marker(yaml)
    ELSE yaml

\* the arms of apply that parse JSON, on the result j of serde_json::from_str
apply_json(kind, j) ==
    IF ~j.ok THEN Err("Json")
    ELSE CASE kind = "JsonPrettify" -> Ok(to_string_pretty(j.val))
           [] kind = "JsonMinify" -> Ok(to_string(j.val))
           [] kind = "JsonToYaml" -> Ok(without_marker(yaml_to_string(j.val)))

\* the arm of YamlToJson, on the result y of serde_yaml::from_str
apply_yaml(y) == IF y.ok THEN Ok(to_string_pretty(y.val)) ELSE Err("Yaml")

\* the outcomes of kind.apply(input) at the wall-clock time now
apply(kind, in, now) ==
    CASE kind \in {"JsonPrettify", "JsonMinify", "JsonToYaml"} ->
             {apply_json(kind, json_from_str(in))}
      [] kind = "YamlToJson" -> {apply_yaml(yaml_from_str(in))}
      [] kind = "StripFormatting" -> {Ok(normalize_whitespace(in))}
      [] kind = "BulletNormalize" -> {Ok(normalize_bullets(in))}
      [] kind = "TimestampNormalize" ->
             {IF r.panic THEN Panic
              ELSE IF r.val.some THEN Ok(r.val.val)
              ELSE Err("Timestamp") : r \in normalize_timestamp(in, now)}

----------------------------------------------------------------------------
(* The texts that detection and the transforms are applied to.             *)

\* JSON documents: scalars, collections, nested and repeated keys
JsonSeeds ==
    {<<"n", "u", "l", "l">>,
     <<"t", "r", "u", "e">>,
     <<"f", "a", "l", "s", "e">>,
     <<"1">>,
     <<"-", "0">>,
     <<"1", ".", "5", "0">>,
     <<"1", "2">>,
     <<"\"", "a", "\"">>,
     <<"\"", "\"">>,
     <<"\"", "1", "\"">>,
     <<"\"", "t", "r", "u", "e", "\"">>,
     <<"\"", "-", "\"">>,
     <<"\"", "a", ":", " ", "b", "\"">>,
     <<"\"", "~", "\"">>,
     <<"\"", "-", " ", "a", "\"">>,
     <<"\"", "-", "-", "-", "\"">>,
     <<"[", "]">>,
     <<"{", "}">>,
     <<"[", "1", "]">>,
     <<"[", "1", ",", "2", "]">>,
     <<"[", "\"", "a", "\"", "]">>,
     <<"[", "[", "]", "]">>,
     <<"[", "{", "}", "]">>,
     <<"[", "[", "1", "]", ",", "2", "]">>,
     <<"[", "[", "1", ",", "[", "2", "]", "]", "]">>,
     <<"{", "\"", "a", "\"", ":", "1", "}">>,
     <<"{", "\"", "b", "\"", ":", "1", ",", "\"", "a", "\"", ":", "2", "}">>,
     <<"{", "\"", "a", "\"", ":", "1", ",", "\"", "a", "\"", ":", "2", "}">>,
     <<"{", "\"", "a", "\"", ":", "[", "1", ",", "2", "]", "}">>,
     <<"{", "\"", "a", "\"", ":", "{", "\"", "b", "\"", ":", "n", "u", "l", "l", "}", "}">>,
     <<"{", "\"", "a", "\"", ":", "[", "]", "}">>,
     <<"{", "\"", "a", "\"", ":", "{", "}", "}">>,
     <<"{", "\"", "1", "\"", ":", "\"", "1", "\"", "}">>,
     <<"{", "\"", "\"", ":", "\"", "\"", "}">>,
     <<"{", "\"", "a", "\"", ":", "[", "{", "\"", "b", "\"", ":", "1", "}", ",", "2", "]", "}">>,
     <<"[", "{", "\"", "a", "\"", ":", "1", ",", "\"", "b", "\"", ":", "[", "2", "]", "}", "]">>,
     <<"{", "\"", "t", "r", "u", "e", "\"", ":", "t", "r", "u", "e", "}">>,
     <<"{", "\"", "-", "\"", ":", "\"", "-", " ", "a", "\"", "}">>,
     <<"{", "\"", "a", ":", " ", "b", "\"", ":", "\"", "~", "\"", "}">>,
     <<"[", "n", "u", "l", "l", ",", "t", "r", "u", "e", ",", "\"", "n", "u", "l", "l", "\"", "]">>,
     <<"{", "\"", "a", "\"", ":", "[", "[", "1", "]", "]", "}">>,
     <<"{", " ", "\"", "a", "\"", " ", ":", " ", "1", " ", "}">>,
     <<"[", "1", ",", " ", "2", "]">>,
     <<"[", " ", "]">>,
     <<"{", "\"", "a", "\"", ":", "-", "0", ",", "\"", "b", "\"", ":", "1", ".", "5", "0", "}">>}

\* texts that are close to JSON
BrokenJsonSeeds ==
    {<<"{">>,
     <<"[">>,
     <<"[", "1", ",", "]">>,
     <<"{", "\"", "a", "\"", "}">>,
     <<"{", "\"", "a", "\"", ":", "}">>,
     <<"0", "1">>,
     <<"\"", "a">>,
     <<"t", "r", "u">>,
     <<"{", "a", ":", "1", "}">>,
     <<"[", "1", " ", "2", "]">>,
     <<"{", "\"", "a", "\"", ":", "1", ",", "}">>,
     <<"n", "u", "l", " ", "l">>,
     <<"-">>,
     <<"1", ".">>,
     <<"{", "\"", "a", "\"", ":", "1", "}", "}">>,
     <<"[", "a", ",", " ", "b", "]">>,
     <<"{", "a", ":", " ", "1", "}">>}

\* the forms of a timestamp, and texts that are close to one
TimestampSeeds ==
    {<<"n", "o", "w">>,
     <<"n", "o", "w", "+", "0", "s">>,
     <<"n", "o", "w", "-", "0", "s">>,
     <<"n", "o", "w", "+", "5", "s">>,
     <<"n", "o", "w", "+", "5", "m">>,
     <<"n", "o", "w", "+", "5", "h">>,
     <<"n", "o", "w", "+", "5", "d">>,
     <<"n", "o", "w", "-", "5", "s">>,
     <<"n", "o", "w", "-", "5", "m">>,
     <<"n", "o", "w", "-", "5", "h">>,
     <<"n", "o", "w", "-", "5", "d">>,
     <<"n", "o", "w", "+", "9", "0", "s">>,
     <<"n", "o", "w", "+", "9", "0", "m">>,
     <<"n", "o", "w", "+", "9", "0", "h">>,
     <<"n", "o", "w", "+", "9", "0", "d">>,
     <<"n", "o", "w", "+", "0", "0", "7", "s">>,
     <<"n", "o", "w", "-", "0", "0", "7", "s">>,
     <<"n", "o", "w", "+", "9", "9", "9", "9", "9", "9", "9", "9", "9", "9", "9", "9", "9", "s">>,
     <<"n", "o", "w", "+", "9", "9", "9", "9", "9", "9", "9", "9", "9", "9", "9", "9", "9", "m">>,
     <<"n", "o", "w", "+", "9", "9", "9", "9", "9", "9", "9", "9", "9", "9", "9", "9", "9", "h">>,
     <<"n", "o", "w", "+", "9", "9", "9", "9", "9", "9", "9", "9", "9", "9", "9", "9", "9", "d">>,
     <<"n", "o", "w", "-", "9", "9", "9", "9", "9", "9", "9", "9", "9", "9", "9", "9", "9", "s">>,
     <<"n", "o", "w", "-", "9", "9", "9", "9", "9", "9", "9", "9", "9", "9", "9", "9", "9", "m">>,
     <<"n", "o", "w", "-", "9", "9", "9", "9", "9", "9", "9", "9", "9", "9", "9", "9", "9", "h">>,
     <<"n", "o", "w", "-", "9", "9", "9", "9", "9", "9", "9", "9", "9", "9", "9", "9", "9", "d">>,
     <<"n", "o", "w", "+", "1", "0", "6", "7", "5", "1", "9", "9", "1", "1", "6", "7", "3", "0", "0", "s">>,
     <<"n", "o", "w", "+", "1", "0", "6", "7", "5", "1", "9", "9", "1", "1", "6", "7", "3", "0", "0", "m">>,
     <<"n", "o", "w", "+", "1", "0", "6", "7", "5", "1", "9", "9", "1", "1", "6", "7", "3", "0", "0", "h">>,
     <<"n", "o", "w", "+", "1", "0", "6", "7", "5", "1", "9", "9", "1", "1", "6", "7", "3", "0", "0", "d">>,
     <<"n", "o", "w", "-", "1", "0", "6", "7", "5", "1", "9", "9", "1", "1", "6", "7", "3", "0", "0", "s">>,
     <<"n", "o", "w", "-", "1", "0", "6", "7", "5", "1", "9", "9", "1", "1", "6", "7", "3", "0", "0", "m">>,
     <<"n", "o", "w", "-", "1", "0", "6", "7", "5", "1", "9", "9", "1", "1", "6", "7", "3", "0", "0", "h">>,
     <<"n", "o", "w", "-", "1", "0", "6", "7", "5", "1", "9", "9", "1", "1", "6", "7", "3", "0", "0", "d">>,
     <<"n", "o", "w", "+", "9", "9", "9", "9", "9", "9", "9", "9", "9", "9", "9", "9", "9", "9", "9", "9", "9", "s">>,
     <<"n", "o", "w", "+", "9", "9", "9", "9", "9", "9", "9", "9", "9", "9", "9", "9", "9", "9", "9", "9", "9", "m">>,
     <<"n", "o", "w", "+", "9", "9", "9", "9", "9", "9", "9", "9", "9", "9", "9", "9", "9", "9", "9", "9", "9", "h">>,
     <<"n", "o", "w", "+", "9", "9", "9", "9", "9", "9", "9", "9", "9", "9", "9", "9", "9", "9", "9", "9", "9", "d">>,
     <<"n", "o", "w", "-", "9", "9", "9", "9", "9", "9", "9", "9", "9", "9", "9", "9", "9", "9", "9", "9", "9", "s">>,
     <<"n", "o", "w", "-", "9", "9", "9", "9", "9", "9", "9", "9", "9", "9", "9", "9", "9", "9", "9", "9", "9", "m">>,
     <<"n", "o", "w", "-", "9", "9", "9", "9", "9", "9", "9", "9", "9", "9", "9", "9", "9", "9", "9", "9", "9", "h">>,
     <<"n", "o", "w", "-", "9", "9", "9", "9", "9", "9", "9", "9", "9", "9", "9", "9", "9", "9", "9", "9", "9", "d">>,
     <<"n", "o", "w", "+", "9", "2", "2", "3", "3", "7", "2", "0", "3", "6", "8", "5", "4", "7", "7", "5", "8", "0", "7", "s">>,
     <<"n", "o", "w", "+", "9", "2", "2", "3", "3", "7", "2", "0", "3", "6", "8", "5", "4", "7", "7", "5", "8", "0", "7", "m">>,
     <<"n", "o", "w", "+", "9", "2", "2", "3", "3", "7", "2", "0", "3", "6", "8", "5", "4", "7", "7", "5", "8", "0", "7", "h">>,
     <<"n", "o", "w", "+", "9", "2", "2", "3", "3", "7", "2", "0", "3", "6", "8", "5", "4", "7", "7", "5", "8", "0", "7", "d">>,
     <<"n", "o", "w", "-", "9", "2", "2", "3", "3", "7", "2", "0", "3", "6", "8", "5", "4", "7", "7", "5", "8", "0", "7", "s">>,
     <<"n", "o", "w", "-", "9", "2", "2", "3", "3", "7", "2", "0", "3", "6", "8", "5", "4", "7", "7", "5", "8", "0", "7", "m">>,
     <<"n", "o", "w", "-", "9", "2", "2", "3", "3", "7", "2", "0", "3", "6", "8", "5", "4", "7", "7", "5", "8", "0", "7", "h">>,
     <<"n", "o", "w", "-", "9", "2", "2", "3", "3", "7", "2", "0", "3", "6", "8", "5", "4", "7", "7", "5", "8", "0", "7", "d">>,
     <<"n", "o", "w", "+", "9", "2", "2", "3", "3", "7", "2", "0", "3", "6", "8", "5", "4", "7", "7", "5", "8", "0", "8", "s">>,
     <<"n", "o", "w", "+", "9", "2", "2", "3", "3", "7", "2", "0", "3", "6", "8", "5", "4", "7", "7", "5", "8", "0", "8", "m">>,
     <<"n", "o", "w", "+", "9", "2", "2", "3", "3", "7", "2", "0", "3", "6", "8", "5", "4", "7", "7", "5", "8", "0", "8", "h">>,
     <<"n", "o", "w", "+", "9", "2", "2", "3", "3", "7", "2", "0", "3", "6", "8", "5", "4", "7", "7", "5", "8", "0", "8", "d">>,
     <<"n", "o", "w", "-", "9", "2", "2", "3", "3", "7", "2", "0", "3", "6", "8", "5", "4", "7", "7", "5", "8", "0", "8", "s">>,
     <<"n", "o", "w", "-", "9", "2", "2", "3", "3", "7", "2", "0", "3", "6", "8", "5", "4", "7", "7", "5", "8", "0", "8", "m">>,
     <<"n", "o", "w", "-", "9", "2", "2", "3", "3", "7", "2", "0", "3", "6", "8", "5", "4", "7", "7", "5", "8", "0", "8", "h">>,
     <<"n", "o", "w", "-", "9", "2", "2", "3", "3", "7", "2", "0", "3", "6", "8", "5", "4", "7", "7", "5", "8", "0", "8", "d">>,
     <<"n", "o", "w", "+">>,
     <<"n", "o", "w", "-">>,
     <<"n", "o", "w", "+", "x">>,
     <<"n", "o", "w", "+", "5">>,
     <<"n", "o", "w", "5", "m">>,
     <<"n", "o", "w", "+", "5", "w">>,
     <<"n", "o", "w", " ", "+", "5", "m">>,
     <<"n", "o", "w", "+", "5", "m", " ">>,
     <<"n", "o", "w", "+", "-", "5", "m">>,
     <<"n", "o", "w", "a", "d", "a", "y", "s">>,
     <<"n", "o", "w", "-", "i", "s", "h">>,
     <<"N", "o", "w">>,
     <<"0">>,
     <<"1", "2", "3", "4", "5", "6", "7", "8", "9">>,
     <<"1", "7", "0", "0", "0", "0", "0", "0", "0", "0">>,
     <<"9", "9", "9", "9", "9", "9", "9", "9", "9", "9">>,
     <<"0", "0", "0", "0", "0", "0", "0", "0", "0", "1">>,
     <<"1", "7", "0", "0", "0", "0", "0", "0", "0", "0", "0">>,
     <<"1", "7", "0", "0", "0", "0", "0", "0", "0", "0", "1", "2", "3">>,
     <<"1", "7", "0", "0", "0", "0", "0", "0", "0", "0", "1", "2", "3", "4">>,
     <<"1", "7", "0", "0", "0", "0", "0", "0", "0", "0", "0", "0">>,
     <<"9", "2", "2", "3", "3", "7", "2", "0", "3", "6", "8", "5", "4", "7", "7", "5", "8", "0", "7">>,
     <<"9", "9", "9", "9", "9", "9", "9", "9", "9", "9", "9", "9", "9", "9", "9", "9", "9", "9", "9">>,
     <<"2", "0", "2", "4", "-", "0", "1", "-", "0", "2", "T", "0", "3", ":", "0", "4", ":", "0", "5", "Z">>,
     <<"2", "0", "2", "4", "-", "0", "1", "-", "0", "2", "T", "0", "3", ":", "0", "4", ":", "0", "5", "+", "0", "5", ":", "3", "0">>,
     <<"2", "0", "2", "4", "-", "0", "2", "-", "2", "9", "T", "2", "3", ":", "5", "9", ":", "5", "9", ".", "5", "-", "0", "1", ":", "3", "0">>,
     <<"1", "9", "6", "9", "-", "1", "2", "-", "3", "1", "T", "2", "3", ":", "5", "9", ":", "5", "9", "Z">>,
     <<"1", "9", "7", "0", "-", "0", "1", "-", "0", "1", "T", "0", "0", ":", "3", "0", ":", "0", "0", "+", "0", "1", ":", "0", "0">>,
     <<"2", "0", "2", "4", "-", "1", "3", "-", "0", "1", "T", "0", "0", ":", "0", "0", ":", "0", "0", "Z">>,
     <<"2", "0", "2", "3", "-", "0", "2", "-", "2", "9", "T", "0", "0", ":", "0", "0", ":", "0", "0", "Z">>,
     <<"2", "0", "2", "4", "-", "0", "1", "-", "0", "2", "T", "0", "3", ":", "0", "4", ":", "0", "5">>,
     <<"2", "0", "2", "4", "-", "0", "1", "-", "0", "2", " ", "0", "3", ":", "0", "4", ":", "0", "5", "Z">>,
     <<"2", "0", "2", "4", "-", "0", "1", "-", "0", "2", "T", "0", "3", ":", "0", "4", "Z">>,
     <<"2", "0", "2", "4", "-", "0", "1", "-", "0", "2">>,
     <<"2", "0", "2", "4", "-", "0", "2", "-", "2", "9">>,
     <<"2", "0", "2", "3", "-", "0", "2", "-", "2", "9">>,
     <<"2", "0", "2", "4", "-", "1", "-", "5">>,
     <<"2", "4", "-", "1", "-", "5">>,
     <<"2", "0", "2", "4", "-", "0", "1", "-", "0", "2", "x">>,
     <<"2", "0", "2", "4", "/", "0", "1", "/", "0", "2">>,
     <<"2", "0", "2", "4", "-", "0", "0", "-", "1", "0">>,
     <<"2", "0", "2", "4", "0", "1", "0", "2">>}

\* plain text, bullet lists and YAML documents
TextSeeds ==
    {<<>>,
     <<"a">>,
     <<"a", " ", "b">>,
     <<"\n", "\n", " ", " ", "a", " ", " ", "\n", "\n", "\n", "b", "\n", "\n">>,
     <<"a", "\r", "\n", "b", "\r", "\n">>,
     <<"a", " ", "\n", "\n", "\n", "\n", " ", "b">>,
     <<" ", " ", "a">>,
     <<"a", "\r", "b">>,
     <<"\t", "\n", " ">>,
     <<"*", " ", "O", "n", "e", "\n", " ", " ", "U+2022", " ", "T", "w", "o">>,
     <<"-", " ", "a", "\n", "-", " ", "b">>,
     <<"*", " ", "a", "\n", "*", " ", "b">>,
     <<"U+2022", " ", "a", "\n", "U+2022", " ", "b">>,
     <<"U+00E2", " ", "a", "\n", "U+00E2", " ", "b">>,
     <<"U+20AC", " ", "a", "\n", "U+00A2", " ", "b">>,
     <<"-", " ", "a", "\n", "U+2022", " ", "b">>,
     <<"-", "a", "\n", "-", "b">>,
     <<"-", " ", "a">>,
     <<"-", " ", "a", "\n", "-", " ", "\n", "-", " ", "b">>,
     <<"-", " ", "\n", "-", " ">>,
     <<" ", " ", "-", " ", "a", "\r", "\n", " ", " ", "*", " ", "b", "\r", "\n">>,
     <<"x", "\n", "-", " ", "a", "\n", "-", " ", "b">>,
     <<"-", " ", "a", "\n", "b", "\n", "-", " ", "c">>,
     <<"+", " ", "a", "\n", "+", " ", "b">>,
     <<"-", " ", " ", "a", " ", "\n", " ", "-", "\t", "b">>,
     <<"a", ":", " ", "1">>,
     <<"a", ":", "\n", "-", " ", "1", "\n", "-", " ", "2">>,
     <<"a", ":", "\n", " ", " ", "b", ":", " ", "c">>,
     <<"-", " ", "a", ":", " ", "1", "\n", " ", " ", "b", ":", " ", "2">>,
     <<"-", " ", "-", " ", "1", "\n", " ", " ", "-", " ", "2">>,
     <<"a", ":">>,
     <<"a", ":", "b">>,
     <<"a", ":", " ", "b", ":", " ", "c">>,
     <<"a", ":", " ", "1", "\n", "b">>,
     <<"a", "\n", "b", ":", " ", "c">>,
     <<"[", "a">>,
     <<"~">>,
     <<"-">>,
     <<"-", " ", "a", "\n", "b", ":", " ", "c">>,
     <<"a", ":", " ", "1", "\n", "a", ":", " ", "2">>,
     <<"'", "a", "'", ":", " ", "1">>,
     <<"'", "a">>,
     <<"a", ":", " ", "[", "1", ",", " ", "2", "]">>,
     <<"a", ":", " ", "{", "b", ":", " ", "1", "}">>,
     <<"a", ":", " ", "-", " ", "b">>,
     <<"k", "e", "y", ":", " ", "v", "a", "l", "u", "e", "\n", "l", "i", "s", "t", ":", "\n", " ", " ", "-", " ", "x", "\n", " ", " ", "-", " ", "y">>,
     <<"n", "o", "w", "-", "\n", "-", " ", "a", "\n", "-", " ", "b">>,
     <<"n", "o", "w", "-", ":", "\n", "-", " ", "a", "\n", "-", " ", "b">>,
     <<"a", "\n", "\n", "b">>,
     <<"a", "\n", "\n", "\n", "b">>,
     <<"-", " ", "a", "\n", "\n">>,
     <<"*", "\t", "b", " ", " ", "\n", "-", "\n", "\t", "U+2022", " ", "c">>,
     <<"a", "\n", " ", "\n", "\t", "\n", " ", "\n", "b", " ", "\r", "\n", "\r", "\n", "\r", "\n", "\r", "\n", "\r", "\n", " ", "c">>,
     <<"-", "-", " ", "a", " ", "\n", "b">>,
     <<"+", "+", " ", "a", " ">>,
     <<"a", "\r", "\r", "\r", "\n", "b">>}

\* the bounds of the variations of a seed
MaxCut == 1
MaxPad == 1

\* the pretty form of the JSON seeds
PrettySeeds == {to_string_pretty(json_from_str(t).val) : t \in JsonSeeds}

Seeds == JsonSeeds \cup PrettySeeds \cup BrokenJsonSeeds \cup TimestampSeeds \cup TextSeeds

\* a seed without its last k characters
Cut(t, k) == SubSeq(t, 1, Len(t) - Min(k, Len(t)))

\* a text between p spaces and p line breaks
Pad(t, p) == [i \in 1..p |-> " "] \o t \o [i \in 1..p |-> "\n"]

TransformInputs == {Pad(Cut(t, k), p) : t \in Seeds, k \in 0..MaxCut, p \in 0..MaxPad}

\* the wall-clock times of the model: 2025-11-03T21:50:42Z and
\* 2026-02-28T23:59:59.500Z
Clocks == {DateTimeOf(days_from_civil(2025, 11, 3), 78642, 0),
           DateTimeOf(days_from_civil(2026, 2, 28), 86399, 500)}

----------------------------------------------------------------------------
(* SpecTransform: a transform is applied to a text, and a transform is     *)
(* applied again to the output of the first.                               *)

Applied(kind, result) == [kind |-> kind, result |-> result]

InitTransform ==
    /\ rules = <<>>
    /\ cells = <<>>
    /\ self = 1
    /\ ctx = NoContext
    /\ max = 0
    /\ ret = NoScore
    /\ out = <<>>
    /\ pc = "ready"
    /\ thr = NoThreads
    /\ input \in TransformInputs
    /\ types = <<>>
    /\ chain = <<>>
    /\ panel = NoPanel
    /\ selected_rule_id = NoId
    /\ state = NoState

\* kind.apply(&input)
Apply ==
    /\ chain = <<>>
    /\ \E kind \in TransformKind, now \in Clocks :
         \E r \in apply(kind, input, now) : chain' = <<Applied(kind, r)>>
    /\ UNCHANGED <<rules, cells, self, ctx, max, ret, out, pc, thr,
                   input, types, panel, selected_rule_id, state>>

\* kind.apply(&output) on the output of the first transform
ApplyAgain ==
    /\ Len(chain) = 1
    /\ chain[1].result.status = "ok"
    /\ \E kind \in TransformKind, now \in Clocks :
         \E r \in apply(kind, chain[1].result.text, now) :
            chain' = Append(chain, Applied(kind, r))
    /\ UNCHANGED <<rules, cells, self, ctx, max, ret, out, pc, thr,
                   input, types, panel, selected_rule_id, state>>

NextTransform == Apply \/ ApplyAgain

SpecTransform == InitTransform /\ [][NextTransform]_vars

----------------------------------------------------------------------------
(* Claims about the transforms, checked under SpecTransform.               *)

\* the text that the i-th transform of the chain was applied to
Source(i) == IF i = 1 THEN input ELSE chain[i - 1].result.text

\* two blank lines, "  a  ", two blank lines, "b", one blank line
StripExample ==
    <<"\n", "\n", " ", " ", "a", " ", " ", "\n", "\n", "\n", "b", "\n", "\n">>

\* C20 as stated: StripFormatting applied to the text "\n\n  a  \n\n\nb\n\n"
\* yields exactly "a\n\nb".
C20_StripExampleTrimmed ==
    \A i \in 1..Len(chain) :
        (Source(i) = StripExample /\ chain[i].kind = "StripFormatting")
            => chain[i].result = Ok(<<"a", "\n", "\n", "b">>)

\* C20 (amended): StripFormatting applied to the text "\n\n  a  \n\n\nb\n\n"
\* yields exactly "  a\n\nb": the blank lines at both ends are dropped, the
\* three line breaks between the lines become two, the trailing spaces of
\* "  a  " are removed and its two leading spaces are kept.
C20_StripExampleKeepsIndent ==
    \A i \in 1..Len(chain) :
        (Source(i) = StripExample /\ chain[i].kind = "StripFormatting")
            => chain[i].result = Ok(<<" ", " ", "a", "\n", "\n", "b">>)

\* StripFormatting was applied to the example text
C20_Witness ==
    /\ chain # <<>>
    /\ input = StripExample
    /\ chain[1].kind = "StripFormatting"
    /\ chain[1].result.status = "ok"

\* C17: TransformKind::apply is total: for every kind and every input it
\* returns a text or a TransformError and never panics; in particular
\* TimestampNormalize on now+N or now-N with a unit s, m, h or d returns a
\* value or the Timestamp error for every digit string N.
C17_ApplyIsTotal ==
    \A i \in 1..Len(chain) : chain[i].result.status \in {"ok", "err"}

\* is x a JSON document for serde_json
IsValidJson(x) == json_from_str(x).ok

\* is there a whitespace character outside the string literals of s[i..]
RECURSIVE ws_outside_strings(_, _, _)
ws_outside_strings(s, i, inside) ==
    IF i > Len(s) THEN FALSE
    ELSE IF inside
         THEN (IF s[i] = "\\" THEN ws_outside_strings(s, i + 2, TRUE)
               ELSE ws_outside_strings(s, i + 1, s[i] # "\""))
         ELSE s[i] \in WhiteSpace \/ ws_outside_strings(s, i + 1, s[i] = "\"")

JsonKinds == {"JsonMinify", "JsonPrettify"}

\* the text that kind gives for the JSON document x
JsonForm(kind, x) ==
    IF kind = "JsonMinify" THEN to_string(json_from_str(x).val)
    ELSE to_string_pretty(json_from_str(x).val)

IsNonEmptyCollection(x) ==
    LET v == json_from_str(x).val IN v.t \in {"array", "object"} /\ v.kids # <<>>

\* C18: for every JSON document x, JsonMinify and JsonPrettify succeed; the
\* minified text has no whitespace outside its strings and the pretty text
\* of a non-empty object or array has several lines; either transform
\* applied to the output of either gives what it gives for x itself (each
\* is idempotent, Minify(Prettify(x)) = Minify(x) and Prettify(Minify(x)) =
\* Prettify(x)); for a text that is no JSON document both fail with the
\* JSON error.
C18_JsonNormalForms ==
    /\ \A i \in 1..Len(chain) :
         chain[i].kind \in JsonKinds =>
            IF IsValidJson(Source(i))
            THEN /\ chain[i].result.status = "ok"
                 /\ chain[i].kind = "JsonMinify"
                        => ~ws_outside_strings(chain[i].result.text, 1, FALSE)
                 /\ (chain[i].kind = "JsonPrettify" /\ IsNonEmptyCollection(Source(i)))
                        => InVec("\n", chain[i].result.text)
            ELSE chain[i].result = Err("Json")
    /\ (/\ Len(chain) = 2
        /\ chain[1].kind \in JsonKinds
        /\ chain[2].kind \in JsonKinds
        /\ IsValidJson(input))
            => chain[2].result = Ok(JsonForm(chain[2].kind, input))

\* a JSON object written with spaces was made pretty and then minified, and
\* both texts differ from the input
C18_Witness ==
    /\ Len(chain) = 2
    /\ IsNonEmptyCollection(input)
    /\ ws_outside_strings(input, 1, FALSE)
    /\ chain[1].kind = "JsonPrettify"
    /\ chain[2].kind = "JsonMinify"
    /\ chain[2].result.status = "ok"
    /\ chain[2].result.text # input
    /\ chain[1].result.text # chain[2].result.text

\* C19: for every JSON document x, JsonToYaml(x) succeeds and its output
\* does not begin with "---"; YamlToJson of that output succeeds and is a
\* JSON document with the value of x (the same keys, the same scalars).
C19_YamlRoundTrip ==
    /\ \A i \in 1..Len(chain) :
         (chain[i].kind = "JsonToYaml" /\ IsValidJson(Source(i)))
            => /\ chain[i].result.status = "ok"
               /\ ~starts_with(chain[i].result.text, <<"-", "-", "-">>)
    /\ (/\ Len(chain) = 2
        /\ chain[1].kind = "JsonToYaml"
        /\ chain[2].kind = "YamlToJson"
        /\ IsValidJson(input))
            => /\ chain[2].result.status = "ok"
               /\ json_from_str(chain[2].result.text) = json_from_str(input)

\* an object with a string that YAML would read as another scalar went
\* through JsonToYaml and YamlToJson
C19_Witness ==
    /\ Len(chain) = 2
    /\ chain[1].kind = "JsonToYaml"
    /\ chain[2].kind = "YamlToJson"
    /\ chain[2].result.status = "ok"
    /\ LET v == json_from_str(input).val
       IN  /\ v.t = "object"
           /\ \E j \in 1..Len(v.kids) :
                /\ v.kids[j].v.t = "string"
                /\ ~yaml_plain_allowed(v.kids[j].v.s)

----------------------------------------------------------------------------
(* SpecDetect: detect_content_types is called with a text.                 *)

MaxLines == 2

\* a line: an indent, a first character, a gap and a content
BulletLines ==
    {ind \o <<m>> \o gap \o content :
        ind \in {<<>>, <<" ">>},
        m \in {"-", "*", "U+2022", "U+00E2", "x"},
        gap \in {<<>>, <<" ">>},
        content \in {<<>>, <<"a">>}}

\* the texts of one to MaxLines such lines
BulletTexts ==
    {join(ls, <<"\n">>) : ls \in UNION {[1..n -> BulletLines] : n \in 1..MaxLines}}

DetectInputs == TransformInputs \cup BulletTexts

InitDetect ==
    /\ rules = <<>>
    /\ cells = <<>>
    /\ self = 1
    /\ ctx = NoContext
    /\ max = 0
    /\ ret = NoScore
    /\ out = <<>>
    /\ pc = "ready"
    /\ thr = NoThreads
    /\ input \in DetectInputs
    /\ types = <<>>
    /\ chain = <<>>
    /\ panel = NoPanel
    /\ selected_rule_id = NoId
    /\ state = NoState

\* detect_content_types(&input)
Detect ==
    /\ pc = "ready"
    /\ types' = detect_content_types(input)
    /\ pc' = "detected"
    /\ UNCHANGED <<rules, cells, self, ctx, max, ret, out, thr,
                   input, chain, panel, selected_rule_id, state>>

NextDetect == Detect

SpecDetect == InitDetect /\ [][NextDetect]_vars

----------------------------------------------------------------------------
(* Claims about detection, checked under SpecDetect.                       *)

\* the place of a tag in the fixed order
TagRank(t) ==
    CASE t = "Text" -> 1 [] t \in {"Json", "Yaml"} -> 2 [] t = "List" -> 3
      [] t = "Timestamp" -> 4

\* C11: detect_content_types returns for every input a list that starts
\* with Text, repeats no tag and keeps the order Text, then Json or Yaml,
\* then List, then Timestamp; for an empty or whitespace-only input the
\* list is exactly [Text].
C11_TagsInOrder ==
    pc = "detected" =>
        /\ Len(types) >= 1
        /\ types[1] = "Text"
        /\ \A i \in 1..Len(types) : types[i] \in ContentType
        /\ \A i, j \in 1..Len(types) : i < j => TagRank(types[i]) < TagRank(types[j])
        /\ is_blank(input) => types = <<"Text">>

\* detection returned Text, a structure tag and Timestamp
C11_Witness ==
    /\ pc = "detected"
    /\ Len(types) = 3
    /\ types[3] = "Timestamp"

\* one of the structural markers of the claim: ":", a leading "-", a line
\* break followed by "-", "[" or "{"
HasMarker(t) ==
    \/ \E i \in 1..Len(t) : t[i] \in {":", "[", "{"}
    \/ t # <<>> /\ t[1] = "-"
    \/ \E i \in 1..(Len(t) - 1) : t[i] = "\n" /\ t[i + 1] = "-"

JsonExample == <<"{", "\"", "a", "\"", ":", "1", "}">>

\* C12: the result never holds both Json and Yaml; Yaml is tagged only
\* when the trimmed input is no JSON document, holds a structural marker,
\* parses as YAML and the parsed value is not a string, number or boolean;
\* {"a":1} gives Json and Text and not Yaml.
C12_YamlOnlyWithoutJson ==
    pc = "detected" =>
        /\ ~(InVec("Json", types) /\ InVec("Yaml", types))
        /\ InVec("Yaml", types) =>
              /\ ~IsValidJson(trim(input))
              /\ HasMarker(trim(input))
              /\ yaml_from_str(trim(input)).ok
              /\ yaml_from_str(trim(input)).val.t \in {"null", "array", "object"}
        /\ input = JsonExample =>
              /\ InVec("Json", types)
              /\ InVec("Text", types)
              /\ ~InVec("Yaml", types)

\* a text was tagged Yaml
C12_Witness ==
    /\ pc = "detected"
    /\ InVec("Yaml", types)
    /\ ~InVec("Json", types)

\* the bullet markers of the claim: "-", "*" and the bullet U+2022
ClaimedMarkers == {"-", "*", "U+2022"}

\* a line that begins, after optional whitespace, with a marker of the
\* claim followed by whitespace and then by content
ClaimedBulletLine(line) ==
    \E i \in 1..Len(line) :
        /\ \A j \in 1..(i - 1) : line[j] \in WhiteSpace
        /\ line[i] \in ClaimedMarkers
        /\ i + 1 <= Len(line)
        /\ line[i + 1] \in WhiteSpace
        /\ \E j \in (i + 2)..Len(line) : line[j] \notin WhiteSpace

\* C13: List is tagged exactly when the trimmed input has at least 2 lines
\* and at least 2 of them are bullet lines for the markers "-", "*" and the
\* bullet U+2022, the markers that BulletNormalize rewrites.
C13_ListIffBulletLines ==
    pc = "detected" =>
        (InVec("List", types)
            <=> /\ Len(lines(trim(input))) >= 2
                /\ Len(SelectSeq(lines(trim(input)), ClaimedBulletLine)) >= 2)

\* YYYY-MM-DD: four, two and two digits that name a day of the calendar
ClaimedDate(t) ==
    /\ Len(t) = 10
    /\ digits_at(t, 1, 4) /\ t[5] = "-" /\ digits_at(t, 6, 2) /\ t[8] = "-"
    /\ digits_at(t, 9, 2)
    /\ valid_date(digits_value(t, 1, 4), digits_value(t, 6, 7), digits_value(t, 9, 10))

\* now, sign, digits, unit
ClaimedRelative(t) ==
    /\ Len(t) >= 6
    /\ SubSeq(t, 1, 3) = <<"n", "o", "w">>
    /\ t[4] \in {"+", "-"}
    /\ \A i \in 5..(Len(t) - 1) : t[i] \in Digits
    /\ t[Len(t)] \in {"s", "m", "h", "d"}

\* C14: Timestamp is tagged exactly when the trimmed input is "now", a
\* relative expression now+N or now-N with a unit s, m, h or d, a string of
\* exactly 10 or 13 digits, an RFC 3339 timestamp or a YYYY-MM-DD date.
C14_TimestampIffForm ==
    pc = "detected" =>
        (InVec("Timestamp", types)
            <=> LET t == trim(input)
                IN  \/ t = <<"n", "o", "w">>
                    \/ ClaimedRelative(t)
                    \/ Len(t) \in {10, 13} /\ \A i \in 1..Len(t) : t[i] \in Digits
                    \/ parse_from_rfc3339(t).ok
                    \/ ClaimedDate(t))

----------------------------------------------------------------------------
(* diff.rs: unified_diff, the unified diff of the crate similar over the   *)
(* lines of two texts, with 3 lines of context and the header before,      *)
(* after.                                                                  *)

\* the context radius of unified_diff
ContextRadius == 3

\* the end of the first line of s, its line break included: a line ends
\* after "\n", after "\r\n" or after a lone "\r"
first_line_end(s) ==
    LET ends == {i \in 1..Len(s) :
                    \/ s[i] = "\n"
                    \/ s[i] = "\r" /\ (i = Len(s) \/ s[i + 1] # "\n")}
    IN  IF ends = {} THEN Len(s) ELSE SetMin(ends)

\* TextDiff::from_lines: the lines of a text with their line breaks
RECURSIVE diff_lines(_)
diff_lines(s) ==
    IF s = <<>> THEN <<>>
    ELSE LET e == first_line_end(s)
         IN  <<SubSeq(s, 1, e)>> \o diff_lines(SubSeq(s, e + 1, Len(s)))

Change(tag, value) == [tag |-> tag, value |-> value]

edits(cs) == Len(SelectSeq(cs, LAMBDA c : c.tag # " "))

\* a shortest edit script from the lines a to the lines b; between two
\* kept lines the deleted lines come before the inserted ones
RECURSIVE diff_ops(_, _)
diff_ops(a, b) ==
    IF a = <<>> THEN [i \in 1..Len(b) |-> Change("+", b[i])]
    ELSE IF b = <<>> THEN [i \in 1..Len(a) |-> Change("-", a[i])]
    ELSE IF a[1] = b[1] THEN <<Change(" ", a[1])>> \o diff_ops(Tail(a), Tail(b))
    ELSE LET del == <<Change("-", a[1])>> \o diff_ops(Tail(a), b)
             ins == <<Change("+", b[1])>> \o diff_ops(a, Tail(b))
         IN  IF edits(del) <= edits(ins) THEN del ELSE ins

\* the positions of the changes of a script that open a hunk: the first
\* change, and every change that more than 2 * ContextRadius kept lines
\* separate from the change before it
hunk_starts(cs) ==
    LET changed == {i \in 1..Len(cs) : cs[i].tag # " "}
    IN  {i \in changed :
            \A j \in changed : j < i => \E k \in changed :
                j <= k /\ k < i /\ i - k > 2 * ContextRadius + 1
                /\ \A l \in changed : ~(k < l /\ l < i)}

\* the hunk opened at the change i: from ContextRadius lines before i to
\* ContextRadius lines after the last change before the next hunk
hunk_of(cs, i) ==
    LET changed == {j \in 1..Len(cs) : cs[j].tag # " "}
        later == {j \in hunk_starts(cs) : j > i}
        last == SetMax({j \in changed : later = {} \/ j < SetMin(later)})
        from == IF i > ContextRadius THEN i - ContextRadius ELSE 1
        to == Min(last + ContextRadius, Len(cs))
    IN  [from |-> from, to |-> to]

\* UnifiedDiffHunkRange: start and length of a side of a hunk
hunk_range(start, len) ==
    IF len = 1 THEN big_of(start + 1)
    ELSE big_of(IF len = 0 THEN start ELSE start + 1) \o <<",">> \o big_of(len)

\* "@@ -old +new @@"
hunk_header(cs, h) ==
    LET old(from, to) == Len(SelectSeq(SubSeq(cs, from, to), LAMBDA c : c.tag # "+"))
        new(from, to) == Len(SelectSeq(SubSeq(cs, from, to), LAMBDA c : c.tag # "-"))
    IN  <<"@", "@", " ", "-">>
            \o hunk_range(old(1, h.from - 1), old(h.from, h.to))
            \o <<" ", "+">>
            \o hunk_range(new(1, h.from - 1), new(h.from, h.to))
            \o <<" ", "@", "@", "\n">>

NoNewlineHint ==
    <<"\n", "\\", " ", "N", "o", " ", "n", "e", "w", "l", "i", "n", "e",
      " ", "a", "t", " ", "e", "n", "d", " ", "o", "f", " ", "f", "i", "l",
      "e", "\n">>

\* a line of a hunk: the tag, the line and, for a line without a line
\* break, the hint
change_text(c) ==
    <<c.tag>> \o c.value
        \o (IF c.value[Len(c.value)] \in {"\n", "\r"} THEN <<>> ELSE NoNewlineHint)

hunk_text(cs, h) ==
    hunk_header(cs, h) \o flatten([i \in 1..(h.to - h.from + 1) |-> change_text(cs[h.from + i - 1])])

\* the hunks in the order of the text
RECURSIVE hunks_from(_, _)
hunks_from(cs, starts) ==
    IF starts = {} THEN <<>>
    ELSE hunk_text(cs, hunk_of(cs, SetMin(starts)))
            \o hunks_from(cs, starts \ {SetMin(starts)})

\* "--- before" and "+++ after"
DiffHeader ==
    <<"-", "-", "-", " ", "b", "e", "f", "o", "r", "e", "\n", "+", "+",
      "+", " ", "a", "f", "t", "e", "r", "\n">>

\* a variant that prints the header of the diff even when there is no hunk
unified_diff_always_header(before, after) ==
    DiffHeader \o hunks_from(diff_ops(diff_lines(before), diff_lines(after)),
                             hunk_starts(diff_ops(diff_lines(before), diff_lines(after))))

\* diff::unified_diff(before, after)
unified_diff(before, after) ==
    LET cs == diff_ops(diff_lines(before), diff_lines(after))
    IN  IF hunk_starts(cs) = {} THEN <<>>
        ELSE DiffHeader \o hunks_from(cs, hunk_starts(cs))

----------------------------------------------------------------------------
(* app.rs: apply_rule, selected_rule and refresh_preview.                  *)

\* rules.rs: LlmRule
LlmRule(provider, model, prompt) ==
    [provider |-> provider, model |-> model, prompt |-> prompt]

NoTransform == None("")
NoLlm == None(LlmRule(<<>>, <<>>, <<>>))

\* a rule without matchers, with its transform selector and its LLM
\* descriptor
ActionRule(id, transform, llm) ==
    [Rule(id, FALSE, Matchers(NoVec, NoVec, NoString), 0)
        EXCEPT !.transform = transform, !.llm = llm]

NoRule == None(ActionRule("", NoTransform, NoLlm))

\* Result<String, String>, and a call that unwinds
ResultOk(v) == [ok |-> TRUE, val |-> v, panic |-> FALSE]
ResultErr(e) == [ok |-> FALSE, val |-> e, panic |-> FALSE]
Unwinds == [ok |-> FALSE, val |-> <<>>, panic |-> TRUE]

\* "Transform error: "
TransformErrorPrefix ==
    <<"T", "r", "a", "n", "s", "f", "o", "r", "m", " ", "e", "r", "r", "o",
      "r", ":", " ">>

\* "invalid json: "
InvalidJsonPrefix ==
    <<"i", "n", "v", "a", "l", "i", "d", " ", "j", "s", "o", "n", ":", " ">>

\* "invalid yaml: "
InvalidYamlPrefix ==
    <<"i", "n", "v", "a", "l", "i", "d", " ", "y", "a", "m", "l", ":", " ">>

\* "unsupported timestamp format"
UnsupportedTimestamp ==
    <<"u", "n", "s", "u", "p", "p", "o", "r", "t", "e", "d", " ", "t", "i",
      "m", "e", "s", "t", "a", "m", "p", " ", "f", "o", "r", "m", "a", "t">>

\* the error of a rule with an LLM descriptor and no transform
LlmNotEnabled ==
    <<"L", "L", "M", " ", "r", "u", "l", "e", " ", "i", "s", " ", "c", "o",
      "n", "f", "i", "g", "u", "r", "e", "d", " ", "b", "u", "t", " ", "n",
      "o", "t", " ", "e", "n", "a", "b", "l", "e", "d", " ", "i", "n", " ",
      "t", "h", "i", "s", " ", "M", "V", "P", ".">>

\* impl Display for TransformError; the message of the parser is one
\* opaque piece
TransformErrorText(e) ==
    CASE e = "Json" -> InvalidJsonPrefix \o <<"{serde_json::Error}">>
      [] e = "Yaml" -> InvalidYamlPrefix \o <<"{serde_yaml::Error}">>
      [] e = "Timestamp" -> UnsupportedTimestamp

\* the LLM descriptor is tested before the transform selector
apply_rule_llm_first(rule, in, now) ==
    IF rule.llm.some
    THEN {ResultErr(LlmNotEnabled)}
    ELSE IF rule.transform.some
    THEN {IF r.status = "ok" THEN ResultOk(r.text)
          ELSE IF r.status = "err"
          THEN ResultErr(TransformErrorPrefix \o TransformErrorText(r.err))
          ELSE Unwinds : r \in apply(rule.transform.val, in, now)}
    ELSE {ResultOk(in)}

\* apply_rule(rule, input): the outcomes of the call at the time now
apply_rule(rule, in, now) ==
    IF rule.transform.some
    THEN {IF r.status = "ok" THEN ResultOk(r.text)
          ELSE IF r.status = "err"
          THEN ResultErr(TransformErrorPrefix \o TransformErrorText(r.err))
          ELSE Unwinds : r \in apply(rule.transform.val, in, now)}
    ELSE IF rule.llm.some
    THEN {ResultErr(LlmNotEnabled)}
    ELSE {ResultOk(in)}

\* Iterator::find on the rule ids
find_rule(rs, id) ==
    IF \E i \in 1..Len(rs) : rs[i].id = id
    THEN Some(rs[SetMin({i \in 1..Len(rs) : rs[i].id = id})])
    ELSE NoRule

\* selected_rule(state)
selected_rule(suggestions, cfg_rules, selected) ==
    IF ~selected.some THEN NoRule
    ELSE LET held == find_rule([i \in 1..Len(suggestions) |-> suggestions[i].rule],
                               selected.val)
         IN  IF held.some THEN held ELSE find_rule(cfg_rules, selected.val)

\* refresh_preview(state): the panel it leaves, or the unwinding of
\* apply_rule
refresh_preview(p, suggestions, cfg_rules, selected, now) ==
    LET rule == selected_rule(suggestions, cfg_rules, selected)
        results == IF rule.some THEN apply_rule(rule.val, p.input, now)
                   ELSE {ResultOk(p.input)}
    IN  {IF r.panic THEN [panic |-> TRUE, panel |-> p]
         ELSE IF r.ok
         THEN [panic |-> FALSE,
               panel |-> [p EXCEPT !.output = r.val,
                                   !.diff = unified_diff(p.input, r.val),
                                   !.error = NoString]]
         ELSE [panic |-> FALSE,
               panel |-> [p EXCEPT !.output = p.input,
                                   !.diff = unified_diff(p.input, p.input),
                                   !.error = Some(r.val)]] : r \in results}

----------------------------------------------------------------------------
(* SpecApplyRule: apply_rule is called with a rule and a text, and called  *)
(* again with the same rule and text.                                      *)

AnLlmRule == LlmRule(<<"o">>, <<"m">>, <<"p">>)

\* a rule for every transform, rules with a transform and an LLM
\* descriptor, a rule with an LLM descriptor only and a rule with neither
ActionRules ==
    {ActionRule("t", Some(k), NoLlm) : k \in TransformKind}
        \cup {ActionRule("both", Some(k), Some(AnLlmRule)) :
                  k \in {"JsonPrettify", "TimestampNormalize"}}
        \cup {ActionRule("llm", NoTransform, Some(AnLlmRule)),
              ActionRule("plain", NoTransform, NoLlm)}

InitApplyRule ==
    /\ rules \in {<<r>> : r \in ActionRules}
    /\ cells = <<>>
    /\ self = 1
    /\ ctx = NoContext
    /\ max = 0
    /\ ret = NoScore
    /\ out = <<>>
    /\ pc = "ready"
    /\ thr = NoThreads
    /\ input \in TransformInputs
    /\ types = <<>>
    /\ chain = <<>>
    /\ panel = NoPanel
    /\ selected_rule_id = NoId
    /\ state = NoState

\* apply_rule(&rule, &input)
ApplyRule ==
    /\ chain = <<>>
    /\ \E now \in Clocks : \E r \in apply_rule(rules[1], input, now) : chain' = <<r>>
    /\ UNCHANGED <<rules, cells, self, ctx, max, ret, out, pc, thr,
                   input, types, panel, selected_rule_id, state>>

\* apply_rule(&rule, &input) once more, after the first call returned
ApplyRuleAgain ==
    /\ Len(chain) = 1
    /\ ~chain[1].panic
    /\ \E now \in Clocks : \E r \in apply_rule(rules[1], input, now) :
            chain' = Append(chain, r)
    /\ UNCHANGED <<rules, cells, self, ctx, max, ret, out, pc, thr,
                   input, types, panel, selected_rule_id, state>>

NextApplyRule == ApplyRule \/ ApplyRuleAgain

SpecApplyRule == InitApplyRule /\ [][NextApplyRule]_vars

\* the outcome r passes on the outcome t of the catalog transform
PassesOn(r, t) ==
    \/ t.status = "ok" /\ r = ResultOk(t.text)
    \/ t.status = "err" /\ ~r.ok /\ ~r.panic /\ r.val # LlmNotEnabled
    \/ t.status = "panic" /\ r.panic

\* C15: apply_rule on a rule with a transform selector passes on the
\* outcome of that catalog transform; on a rule with an LLM descriptor and
\* no transform it yields the fixed not-enabled error, never the input, and
\* the same outcome on every call; on a rule with neither it returns the
\* input unchanged.
C15_ApplyRuleCases ==
    LET rule == rules[1]
    IN  /\ \A i \in 1..Len(chain) :
              /\ rule.transform.some =>
                    \E now \in Clocks : \E t \in apply(rule.transform.val, input, now) :
                        PassesOn(chain[i], t)
              /\ (~rule.transform.some /\ rule.llm.some) =>
                    /\ chain[i] = ResultErr(LlmNotEnabled)
                    /\ chain[i] # ResultOk(input)
              /\ (~rule.transform.some /\ ~rule.llm.some) => chain[i] = ResultOk(input)
        /\ (~rule.transform.some /\ rule.llm.some) =>
              \A i, j \in 1..Len(chain) : chain[i] = chain[j]

\* apply_rule was called twice on a rule with an LLM descriptor only
C15_Witness ==
    /\ Len(chain) = 2
    /\ ~rules[1].transform.some
    /\ rules[1].llm.some
    /\ input # <<>>

----------------------------------------------------------------------------
(* SpecPreview: refresh_preview is called when the panel opens, and again  *)
(* when the SelectRule message selects a rule.                             *)

\* cfg.rules
PreviewRules ==
    <<ActionRule("pretty", Some("JsonPrettify"), NoLlm),
      ActionRule("yaml", Some("JsonToYaml"), NoLlm),
      ActionRule("strip", Some("StripFormatting"), NoLlm),
      ActionRule("ts", Some("TimestampNormalize"), NoLlm),
      ActionRule("llm", NoTransform, Some(AnLlmRule)),
      ActionRule("both", Some("JsonMinify"), Some(AnLlmRule)),
      ActionRule("plain", NoTransform, NoLlm)>>

\* the ids of the rules, and an id that no rule carries
PreviewIds == {PreviewRules[i].id : i \in 1..Len(PreviewRules)} \cup {"gone"}

\* the clipboard texts
PreviewInputs == Seeds \cup {<<>>}

\* "Failed to read clipboard"
FailedToReadClipboard ==
    <<"F", "a", "i", "l", "e", "d", " ", "t", "o", " ", "r", "e", "a", "d",
      " ", "c", "l", "i", "p", "b", "o", "a", "r", "d">>

\* the state in which open_panel calls refresh_preview: the clipboard text
\* is the input of the panel, or the clipboard could not be read; the
\* first rules are the suggestions
InitPreview ==
    /\ rules = PreviewRules
    /\ cells = <<>>
    /\ self = 1
    /\ ctx = NoContext
    /\ max = 0
    /\ ret = NoScore
    /\ out = <<Suggestion(PreviewRules[1], 1), Suggestion(PreviewRules[2], 1)>>
    /\ pc = "ready"
    /\ thr = NoThreads
    /\ input = <<>>
    /\ types = <<>>
    /\ chain = <<>>
    /\ \/ \E t \in PreviewInputs : panel = [NoPanel EXCEPT !.input = t]
       \/ panel = [NoPanel EXCEPT !.error = Some(FailedToReadClipboard)]
    /\ selected_rule_id \in {NoId} \cup {Some(id) : id \in PreviewIds}
    /\ state = NoState

\* refresh_preview(state) at the end of open_panel
RefreshPreview ==
    /\ pc = "ready"
    /\ \E now \in Clocks :
         \E o \in refresh_preview(panel, out, rules, selected_rule_id, now) :
            /\ panel' = o.panel
            /\ pc' = IF o.panic THEN "panicked" ELSE "refreshed"
    /\ UNCHANGED <<rules, cells, self, ctx, max, ret, out, thr,
                   input, types, chain, selected_rule_id, state>>

\* handle_ipc(IpcMessage::SelectRule { id }): the id is stored and the
\* preview refreshed
SelectRule ==
    /\ pc = "refreshed"
    /\ \E id \in PreviewIds, now \in Clocks :
         \E o \in refresh_preview(panel, out, rules, Some(id), now) :
            /\ selected_rule_id' = Some(id)
            /\ panel' = o.panel
            /\ pc' = IF o.panic THEN "panicked" ELSE "reselected"
    /\ UNCHANGED <<rules, cells, self, ctx, max, ret, out, thr,
                   input, types, chain, state>>

NextPreview == RefreshPreview \/ SelectRule

SpecPreview == InitPreview /\ [][NextPreview]_vars

\* the panel shows the outcome r of applying the selected rule, as the
\* claim states it
ShowsOutcome(rule, r) ==
    \/ /\ ~r.ok
       /\ panel.error.some
       /\ (rule.some /\ rule.val.transform.some)
             => starts_with(panel.error.val, TransformErrorPrefix)
       /\ panel.output = panel.input
       /\ panel.diff = unified_diff(panel.input, panel.input)
    \/ /\ r.ok
       /\ ~panel.error.some
       /\ panel.output = r.val
       /\ panel.diff = unified_diff(panel.input, panel.output)

\* C16: once refresh_preview ran, a failed application of the selected
\* rule has set panel.error (beginning with "Transform error: " for a
\* catalog failure), made panel.output the input and panel.diff the diff
\* of the input with itself; a successful application, or no selected
\* rule, has cleared panel.error, made panel.output the result (the input
\* without a rule) and panel.diff the diff of input against output.
C16_PreviewShowsOutcome ==
    pc # "ready" =>
        LET rule == selected_rule(out, rules, selected_rule_id)
        IN  \E now \in Clocks :
              \E r \in (IF rule.some THEN apply_rule(rule.val, panel.input, now)
                        ELSE {ResultOk(panel.input)}) :
                 ShowsOutcome(rule, r)

----------------------------------------------------------------------------
(* Claims about StripFormatting, BulletNormalize and TimestampNormalize,   *)
(* checked under SpecTransform.                                            *)

\* the pieces of s between its "\n"
RECURSIVE split_lines(_)
split_lines(s) ==
    IF \A i \in 1..Len(s) : s[i] # "\n" THEN <<s>>
    ELSE LET p == SetMin({i \in 1..Len(s) : s[i] = "\n"})
         IN  <<SubSeq(s, 1, p - 1)>> \o split_lines(SubSeq(s, p + 1, Len(s)))

NonBlank(line) == ~is_blank(line)

\* the k-th smallest element of S
RECURSIVE Nth(_, _)
Nth(S, k) == IF k = 1 THEN SetMin(S) ELSE Nth(S \ {SetMin(S)}, k - 1)

\* the number of blank lines between the k-th and the next non-blank line
BlankRun(ls, k) ==
    LET nb == {i \in 1..Len(ls) : NonBlank(ls[i])}
    IN  Nth(nb, k + 1) - Nth(nb, k) - 1

\* the output o of StripFormatting has the shape the claim states for the
\* input whose lines are il
StrippedShape(il, o) ==
    LET ol == split_lines(o)
        inb == SelectSeq(il, NonBlank)
    IN  /\ \A j \in 1..Len(o) : o[j] # "\r"
        /\ \A j \in 1..Len(ol) : ol[j] = <<>> \/ ol[j][Len(ol[j])] \notin WhiteSpace
        /\ o # <<>> => NonBlank(ol[1]) /\ NonBlank(ol[Len(ol)])
        /\ SelectSeq(ol, NonBlank) = [j \in 1..Len(inb) |-> trim_end(inb[j])]
        /\ \A k \in 1..(Len(inb) - 1) : BlankRun(il, k) >= 3 => BlankRun(ol, k) = 1

\* C21: StripFormatting never fails; its output has no "\r", no line that
\* ends in whitespace, no blank line at its start or end, exactly one blank
\* line where the input has a run of 3 or more blank lines, and the
\* non-blank lines of the input in their order, without their trailing
\* whitespace.
C21_StripFormattingShape ==
    \A i \in 1..Len(chain) :
        chain[i].kind = "StripFormatting" =>
            /\ chain[i].result.status = "ok"
            /\ StrippedShape(split_lines(replace_cr(replace_crlf(Source(i)))),
                             chain[i].result.text)

\* StripFormatting was applied to a text with "\r", with trailing
\* whitespace and with a run of 3 blank lines
C21_Witness ==
    /\ chain # <<>>
    /\ chain[1].kind = "StripFormatting"
    /\ \E j \in 1..Len(input) : input[j] = "\r"
    /\ \E j \in 1..(Len(input) - 1) : input[j] = " " /\ input[j + 1] \in {"\n", "\r"}
    /\ \E k \in 1..3 :
          LET il == split_lines(replace_cr(replace_crlf(input)))
          IN  /\ Len(SelectSeq(il, NonBlank)) > k
              /\ BlankRun(il, k) >= 3

\* where the marker of a bullet line stands: after whitespace only, and
\* before a whitespace character
MarkerAt(line, i) ==
    /\ \A j \in 1..(i - 1) : line[j] \in WhiteSpace
    /\ line[i] \in ClaimedMarkers
    /\ i + 1 <= Len(line)
    /\ line[i + 1] \in WhiteSpace

\* the line that the claim states for a line of the input
RewrittenLine(line) ==
    IF \E i \in 1..Len(line) : MarkerAt(line, i)
    THEN LET i == CHOOSE k \in 1..Len(line) : MarkerAt(line, k)
         IN  SubSeq(line, 1, i - 1) \o <<"-", " ">> \o trim(SubSeq(line, i + 1, Len(line)))
    ELSE line

BulletExample == <<"*", " ", "O", "n", "e", "\n", " ", " ", "U+2022", " ", "T", "w", "o">>

\* C22: BulletNormalize never fails; its output has as many lines as its
\* input, in the same order: a line made of an indent, a marker "-", "*" or
\* U+2022, whitespace and a content becomes indent, "- " and the trimmed
\* content, every other line is unchanged; "* One\n  (U+2022) Two" yields
\* "- One\n  - Two".
C22_BulletLinesRewritten ==
    \A i \in 1..Len(chain) :
        chain[i].kind = "BulletNormalize" =>
            /\ chain[i].result.status = "ok"
            /\ Len(lines(chain[i].result.text)) = Len(lines(Source(i)))
            /\ \A j \in 1..Len(lines(Source(i))) :
                  lines(chain[i].result.text)[j] = RewrittenLine(lines(Source(i))[j])
            /\ Source(i) = BulletExample =>
                  chain[i].result.text
                      = <<"-", " ", "O", "n", "e", "\n", " ", " ", "-", " ", "T", "w", "o">>

\* the last second that RFC 3339 can write: 9999-12-31T23:59:59Z
Rfc3339Max == <<"2", "5", "3", "4", "0", "2", "3", "0", "0", "7", "9", "9">>

\* the seconds and the milliseconds that the claim reads from a digit text
EpochSeconds(t) == big_norm(IF Len(t) = 13 THEN SubSeq(t, 1, 10) ELSE t)
EpochMillis(t) == IF Len(t) = 13 THEN digits_value(t, 11, 13) ELSE 0

\* is text the RFC 3339 rendering, in UTC, of the instant secs, ms
RendersInstant(text, secs, ms) ==
    LET p == parse_from_rfc3339(text)
    IN  /\ p.ok
        /\ p.off = 0
        /\ timestamp_text(p.days, p.sod, 0) = secs
        /\ IF ms = 0 THEN Len(text) = 25
           ELSE /\ Len(text) = 29
                /\ SubSeq(text, 20, 23)
                     = <<".", DigitChar(ms \div 100)>> \o pad2(ms % 100)

\* is text the Unix seconds of second s (any integer) of day number days
IsUnixSeconds(text, days, s) ==
    LET d == days + s \div 86400
        r == s % 86400
    IN  IF d >= 0
        THEN /\ text # <<>>
             /\ AllDigits(text)
             /\ big_norm(text) = text
             /\ from_timestamp(text, 0) = Some(DateTimeOf(d, r, 0))
        ELSE d > 0 - 20000 => text = <<"-">> \o big_of(0 - (d * 86400 + r))

\* the formats of a timestamp: now, a relative expression, digits, RFC 3339
\* and YYYY-MM-DD
RecognisedFormat(t) ==
    \/ t = Now3
    \/ ClaimedRelative(t)
    \/ t # <<>> /\ AllDigits(t)
    \/ parse_from_rfc3339(t).ok
    \/ ClaimedDate(t)

TimestampConversion(t, r) ==
    /\ (t # <<>> /\ AllDigits(t) /\ ~big_lt(Rfc3339Max, EpochSeconds(t))) =>
          /\ r.status = "ok"
          /\ RendersInstant(r.text, EpochSeconds(t), EpochMillis(t))
    /\ t = <<"0">> =>
          r = Ok(<<"1", "9", "7", "0", "-", "0", "1", "-", "0", "1", "T",
                   "0", "0", ":", "0", "0", ":", "0", "0", "+", "0", "0", ":", "0", "0">>)
    /\ parse_from_rfc3339(t).ok =>
          /\ r.status = "ok"
          /\ IsUnixSeconds(r.text, parse_from_rfc3339(t).days,
                           parse_from_rfc3339(t).sod - parse_from_rfc3339(t).off)
    /\ ClaimedDate(t) =>
          /\ r.status = "ok"
          /\ IsUnixSeconds(r.text,
                           days_from_civil(digits_value(t, 1, 4), digits_value(t, 6, 7),
                                           digits_value(t, 9, 10)), 0)
    /\ ~RecognisedFormat(t) => r = Err("Timestamp")

\* C23: TimestampNormalize turns a text of digits into the RFC 3339
\* rendering of that instant (13 digits are milliseconds, any other count
\* seconds, "0" is 1970-01-01T00:00:00 UTC), an RFC 3339 text into its Unix
\* seconds, a date YYYY-MM-DD into the Unix seconds of its midnight in UTC,
\* and fails with the Timestamp error on a text of no recognised format.
C23_TimestampConversions ==
    \A i \in 1..Len(chain) :
        chain[i].kind = "TimestampNormalize" =>
            TimestampConversion(trim(Source(i)), chain[i].result)

----------------------------------------------------------------------------
(* app.rs: diff_line_stats, and the claim about the diff of a text with    *)
(* itself, checked under SpecPreview.                                      *)

\* the added and removed lines that diff_line_stats counts in a diff
CountsAdded(line) ==
    /\ ~starts_with(line, <<"+", "+", "+">>)
    /\ ~starts_with(line, <<"-", "-", "-">>)
    /\ ~starts_with(line, <<"@", "@">>)
    /\ starts_with(line, <<"+">>)

CountsRemoved(line) ==
    /\ ~starts_with(line, <<"+", "+", "+">>)
    /\ ~starts_with(line, <<"-", "-", "-">>)
    /\ ~starts_with(line, <<"@", "@">>)
    /\ starts_with(line, <<"-">>)

diff_line_stats(diff_text) ==
    [added |-> Len(SelectSeq(lines(diff_text), CountsAdded)),
     removed |-> Len(SelectSeq(lines(diff_text), CountsRemoved))]

\* no line of the diff begins with "+", "-" or "@@"
NoHunkLine(diff_text) ==
    \A i \in 1..Len(lines(diff_text)) :
        /\ ~starts_with(lines(diff_text)[i], <<"+">>)
        /\ ~starts_with(lines(diff_text)[i], <<"-">>)
        /\ ~starts_with(lines(diff_text)[i], <<"@", "@">>)

\* C24: the diff of a text with itself has no hunk: no line of it begins
\* with "+", "-" or "@@", so a preview whose output equals its input counts
\* 0 added and 0 removed lines.
C24_NoHunkForEqualTexts ==
    (pc \in {"refreshed", "reselected"} /\ panel.output = panel.input) =>
        /\ panel.diff = unified_diff(panel.input, panel.input)
        /\ NoHunkLine(panel.diff)
        /\ diff_line_stats(panel.diff) = [added |-> 0, removed |-> 0]

\* a refreshed preview of a text of several lines, some of them starting
\* with "-", that the selected rule left as it was
C24_Witness ==
    /\ pc \in {"refreshed", "reselected"}
    /\ panel.output = panel.input
    /\ panel.error = NoString
    /\ Len(lines(panel.input)) >= 2
    /\ \E i \in 1..Len(lines(panel.input)) : starts_with(lines(panel.input)[i], <<"-">>)

----------------------------------------------------------------------------
(* Claims about the application clause and the content-type clause,        *)
(* checked under SpecMatch.                                                *)

\* C25: a rule with an application clause does not match a context that has
\* no active application name, whatever substrings the rule accepts.
C25_NoActiveAppNoMatch ==
    (pc = "returned" /\ rules[self].matchers.apps.some /\ ~ctx.active_app.some)
        => ~ret.some

\* the number of distinct types that the rule accepts and the context detected
DistinctOverlap(m, c) ==
    Cardinality(Range(m.content_types.val) \cap Range(c.content_types))

\* C26: the content-type clause reads the accepted types as a set: a rule
\* that matches scores 60 + 5 * (number of distinct types both accepted and
\* detected) for the clause, however often and in whichever order the rule
\* lists a type.
C26_AcceptedTypesAsSet ==
    (pc = "returned" /\ rules[self].matchers.content_types.some /\ ret.some) =>
        ret.val = PolicyScore(rules[self], ctx)
                    - 5 * OverlapCount(rules[self].matchers, ctx)
                    + 5 * DistinctOverlap(rules[self].matchers, ctx)

----------------------------------------------------------------------------
(* app.rs: open_panel and handle_ipc. A handler is a function of the       *)
(* AppState it finds to the AppStates it can leave: [rules, limit          *)
(* (cfg.ui.suggestions), ui_state (cfg.ui_state), suggestions,             *)
(* selected_rule_id, panel, history, ctx (the MatchContext of the last     *)
(* suggest_rules call), clipboard (what became of clipboard.set_text in    *)
(* this handler), panicked], the fields of the configuration editor and of *)
(* the hotkeys, and the answers of the file system and of the operating    *)
(* system during the handler (disk, granted, unregistered).                *)

\* "global", the key of the preferences when no application is active
Global == <<"g", "l", "o", "b", "a", "l">>

\* "Failed to copy: " and the message of the clipboard, one opaque piece
FailedToCopy ==
    <<"F", "a", "i", "l", "e", "d", " ", "t", "o", " ", "c", "o", "p", "y",
      ":", " ", "{arboard::Error}">>

\* config::UiAppState, and UiAppState::default()
UiAppState(search, selected) == [search |-> search, selected_rule_id |-> selected]
DefaultPrefs == UiAppState(NoString, NoId)

\* cfg.ui_state.entry(key).or_default()
or_default(ui_state, key) ==
    [k \in DOMAIN ui_state \cup {key} |->
        IF k \in DOMAIN ui_state THEN ui_state[k] ELSE DefaultPrefs]

\* cfg.ui_state.get(key).and_then(|prefs| prefs.selected_rule_id.clone())
persisted_selection(ui_state, key) ==
    IF key \in DOMAIN ui_state THEN ui_state[key].selected_rule_id ELSE NoId

\* update_ui_prefs(state, None, selected): cfg.ui_state afterwards
update_ui_prefs(ui_state, key, selected) ==
    IF selected.some
    THEN [or_default(ui_state, key) EXCEPT ![key].selected_rule_id = selected]
    ELSE or_default(ui_state, key)

\* suggestions.first().map(|suggestion| suggestion.rule.id.clone())
first_id(suggestions) ==
    IF suggestions = <<>> THEN NoId ELSE Some(suggestions[1].rule.id)

\* !cfg.rules.iter().all(|rule| &rule.id != id)
has_rule(rs, id) == \E i \in 1..Len(rs) : rs[i].id = id

----------------------------------------------------------------------------
(* app.rs: the hotkeys. A HotKey is its modifiers and its key code, and    *)
(* its id is the hotkey itself. A vector or a map that the code fills in   *)
(* the iteration order of a HashMap is the set of its items.               *)

HotKey(mods, code) == [mods |-> mods, code |-> code]
NoCode == None("")

\* Code::KeyA .. Code::KeyZ for an ASCII letter, whatever its case
LetterCodes ==
    "a" :> "KeyA" @@ "b" :> "KeyB" @@ "c" :> "KeyC" @@ "d" :> "KeyD" @@ "e" :> "KeyE" @@ "f" :> "KeyF" @@
    "g" :> "KeyG" @@ "h" :> "KeyH" @@ "i" :> "KeyI" @@ "j" :> "KeyJ" @@ "k" :> "KeyK" @@ "l" :> "KeyL" @@
    "m" :> "KeyM" @@ "n" :> "KeyN" @@ "o" :> "KeyO" @@ "p" :> "KeyP" @@ "q" :> "KeyQ" @@ "r" :> "KeyR" @@
    "s" :> "KeyS" @@ "t" :> "KeyT" @@ "u" :> "KeyU" @@ "v" :> "KeyV" @@ "w" :> "KeyW" @@ "x" :> "KeyX" @@
    "y" :> "KeyY" @@ "z" :> "KeyZ" @@
    "A" :> "KeyA" @@ "B" :> "KeyB" @@ "C" :> "KeyC" @@ "D" :> "KeyD" @@ "E" :> "KeyE" @@ "F" :> "KeyF" @@
    "G" :> "KeyG" @@ "H" :> "KeyH" @@ "I" :> "KeyI" @@ "J" :> "KeyJ" @@ "K" :> "KeyK" @@ "L" :> "KeyL" @@
    "M" :> "KeyM" @@ "N" :> "KeyN" @@ "O" :> "KeyO" @@ "P" :> "KeyP" @@ "Q" :> "KeyQ" @@ "R" :> "KeyR" @@
    "S" :> "KeyS" @@ "T" :> "KeyT" @@ "U" :> "KeyU" @@ "V" :> "KeyV" @@ "W" :> "KeyW" @@ "X" :> "KeyX" @@
    "Y" :> "KeyY" @@ "Z" :> "KeyZ"

\* Code::Digit0 .. Code::Digit9
DigitCodes ==
    "0" :> "Digit0" @@ "1" :> "Digit1" @@ "2" :> "Digit2" @@ "3" :> "Digit3" @@ "4" :> "Digit4" @@
    "5" :> "Digit5" @@ "6" :> "Digit6" @@ "7" :> "Digit7" @@ "8" :> "Digit8" @@ "9" :> "Digit9"

\* the names of the keys that are not one letter or one digit
NamedCodes ==
    {<<<<"s", "p", "a", "c", "e">>, "Space">>,
     <<<<"t", "a", "b">>, "Tab">>,
     <<<<"e", "n", "t", "e", "r">>, "Enter">>,
     <<<<"r", "e", "t", "u", "r", "n">>, "Enter">>,
     <<<<"e", "s", "c">>, "Escape">>,
     <<<<"e", "s", "c", "a", "p", "e">>, "Escape">>,
     <<<<"b", "a", "c", "k", "s", "p", "a", "c", "e">>, "Backspace">>,
     <<<<"d", "e", "l", "e", "t", "e">>, "Delete">>,
     <<<<"u", "p">>, "ArrowUp">>,
     <<<<"a", "r", "r", "o", "w", "u", "p">>, "ArrowUp">>,
     <<<<"d", "o", "w", "n">>, "ArrowDown">>,
     <<<<"a", "r", "r", "o", "w", "d", "o", "w", "n">>, "ArrowDown">>,
     <<<<"l", "e", "f", "t">>, "ArrowLeft">>,
     <<<<"a", "r", "r", "o", "w", "l", "e", "f", "t">>, "ArrowLeft">>,
     <<<<"r", "i", "g", "h", "t">>, "ArrowRight">>,
     <<<<"a", "r", "r", "o", "w", "r", "i", "g", "h", "t">>, "ArrowRight">>,
     <<<<"h", "o", "m", "e">>, "Home">>,
     <<<<"e", "n", "d">>, "End">>,
     <<<<"p", "a", "g", "e", "u", "p">>, "PageUp">>,
     <<<<"p", "a", "g", "e", "d", "o", "w", "n">>, "PageDown">>,
     <<<<"f", "1">>, "F1">>,
     <<<<"f", "2">>, "F2">>,
     <<<<"f", "3">>, "F3">>,
     <<<<"f", "4">>, "F4">>,
     <<<<"f", "5">>, "F5">>,
     <<<<"f", "6">>, "F6">>,
     <<<<"f", "7">>, "F7">>,
     <<<<"f", "8">>, "F8">>,
     <<<<"f", "9">>, "F9">>,
     <<<<"f", "1", "0">>, "F10">>,
     <<<<"f", "1", "1">>, "F11">>,
     <<<<"f", "1", "2">>, "F12">>,
     <<<<"`">>, "Backquote">>,
     <<<<"b", "a", "c", "k", "q", "u", "o", "t", "e">>, "Backquote">>,
     <<<<"g", "r", "a", "v", "e">>, "Backquote">>,
     <<<<"-">>, "Minus">>,
     <<<<"m", "i", "n", "u", "s">>, "Minus">>,
     <<<<"=">>, "Equal">>,
     <<<<"e", "q", "u", "a", "l">>, "Equal">>,
     <<<<"e", "q", "u", "a", "l", "s">>, "Equal">>,
     <<<<"[">>, "BracketLeft">>,
     <<<<"b", "r", "a", "c", "k", "e", "t", "l", "e", "f", "t">>, "BracketLeft">>,
     <<<<"]">>, "BracketRight">>,
     <<<<"b", "r", "a", "c", "k", "e", "t", "r", "i", "g", "h", "t">>, "BracketRight">>,
     <<<<"\\">>, "Backslash">>,
     <<<<"b", "a", "c", "k", "s", "l", "a", "s", "h">>, "Backslash">>,
     <<<<";">>, "Semicolon">>,
     <<<<"s", "e", "m", "i", "c", "o", "l", "o", "n">>, "Semicolon">>,
     <<<<"'">>, "Quote">>,
     <<<<"q", "u", "o", "t", "e">>, "Quote">>,
     <<<<",">>, "Comma">>,
     <<<<"c", "o", "m", "m", "a">>, "Comma">>,
     <<<<".">>, "Period">>,
     <<<<"p", "e", "r", "i", "o", "d">>, "Period">>,
     <<<<"/">>, "Slash">>,
     <<<<"s", "l", "a", "s", "h">>, "Slash">>}

\* code_from_key(key)
code_from_key(key) ==
    IF Len(key) = 1 /\ key[1] \in DOMAIN LetterCodes THEN Some(LetterCodes[key[1]])
    ELSE IF Len(key) = 1 /\ key[1] \in DOMAIN DigitCodes THEN Some(DigitCodes[key[1]])
    ELSE IF \E n \in NamedCodes : n[1] = key
         THEN Some((CHOOSE n \in NamedCodes : n[1] = key)[2])
         ELSE NoCode

\* combo.split('+')
RECURSIVE split_plus(_, _)
split_plus(s, i) ==
    LET plus == {j \in i..Len(s) : s[j] = "+"}
    IN  IF plus = {} THEN <<SubSeq(s, i, Len(s))>>
        ELSE <<SubSeq(s, i, SetMin(plus) - 1)>> \o split_plus(s, SetMin(plus) + 1)

\* .map(|p| p.trim()).filter(|p| !p.is_empty()).collect()
RECURSIVE trimmed_parts(_)
trimmed_parts(ps) ==
    IF ps = <<>> THEN <<>>
    ELSE IF trim(Head(ps)) = <<>> THEN trimmed_parts(Tail(ps))
    ELSE <<trim(Head(ps))>> \o trimmed_parts(Tail(ps))

\* the words of parse_hotkey for the four modifiers
MetaWords == {<<"c", "m", "d">>, <<"c", "o", "m", "m", "a", "n", "d">>, <<"m", "e", "t", "a">>}
ShiftWords == {<<"s", "h", "i", "f", "t">>}
AltWords == {<<"a", "l", "t">>, <<"o", "p", "t", "i", "o", "n">>}
ControlWords == {<<"c", "t", "r", "l">>, <<"c", "o", "n", "t", "r", "o", "l">>}

\* Result<HotKey, String> of parse_hotkey; key is the key of the message
\* "unsupported key '{}'"
NoHotKey == HotKey({}, "")
Parsed(hotkey) == [ok |-> TRUE, hotkey |-> hotkey, err |-> "", key |-> <<>>]
NotParsed(err, key) == [ok |-> FALSE, hotkey |-> NoHotKey, err |-> err, key |-> key]

\* the loop of parse_hotkey over the parts from the i-th on
RECURSIVE parse_parts(_, _, _, _)
parse_parts(parts, i, modifiers, code) ==
    IF i > Len(parts)
    THEN IF code.some THEN Parsed(HotKey(modifiers, code.val))
         ELSE NotParsed("missing key", <<>>)
    ELSE LET part == to_lowercase(parts[i])
         IN  IF part \in MetaWords THEN parse_parts(parts, i + 1, modifiers \cup {"META"}, code)
             ELSE IF part \in ShiftWords
                  THEN parse_parts(parts, i + 1, modifiers \cup {"SHIFT"}, code)
             ELSE IF part \in AltWords
                  THEN parse_parts(parts, i + 1, modifiers \cup {"ALT"}, code)
             ELSE IF part \in ControlWords
                  THEN parse_parts(parts, i + 1, modifiers \cup {"CONTROL"}, code)
             ELSE IF code_from_key(part).some
                  THEN parse_parts(parts, i + 1, modifiers, code_from_key(part))
             ELSE NotParsed("unsupported key", part)

\* parse_hotkey(combo)
parse_hotkey(combo) ==
    IF trimmed_parts(split_plus(combo, 1)) = <<>> THEN NotParsed("empty hotkey", <<>>)
    ELSE parse_parts(trimmed_parts(split_plus(combo, 1)), 1, {}, NoCode)

\* config::HotkeyConfig: apps maps the name of an application to a combo
HotkeyConfig(combo, apps) == [combo |-> combo, apps |-> apps]

\* "Cmd+Shift+V", the combo of HotkeyConfig::default()
DefaultCombo == <<"C", "m", "d", "+", "S", "h", "i", "f", "t", "+", "V">>

HotkeySpec(combo, app) == [combo |-> combo, app |-> app]

\* build_hotkey_specs(cfg)
build_hotkey_specs(hotkey) ==
    {HotkeySpec(hotkey.combo, NoString)}
        \cup {HotkeySpec(hotkey.apps[a], Some(a)) : a \in DOMAIN hotkey.apps}

\* the names in apps after sort_by_key(|a| a.to_lowercase()); no two names
\* of the configurations of the model differ in case only, so that
\* dedup_by(eq_ignore_ascii_case) finds nothing to remove
RECURSIVE sorted_apps(_)
sorted_apps(names) ==
    IF names = {} THEN <<>>
    ELSE LET first == CHOOSE a \in names :
                         \A b \in names \ {a} : str_lt(to_lowercase(a), to_lowercase(b))
         IN  <<first>> \o sorted_apps(names \ {first})

\* a warning of build_hotkeys or apply_hotkeys: the kind of the message and
\* the combos, the application names and the parse error that it prints
Warning(kind, combos, apps, err) == [kind |-> kind, combos |-> combos, apps |-> apps, err |-> err]

HotkeyRule(is_global, apps) == [is_global |-> is_global, apps |-> apps]
HotkeyEntry(hotkey, combos) == [hotkey |-> hotkey, combos |-> combos]

\* a spec together with what parse_hotkey makes of its combo
parsed_specs(specs) ==
    {[combo |-> sp.combo, app |-> sp.app, res |-> parse_hotkey(sp.combo)] : sp \in specs}

\* the specs whose combo parses to the hotkey
specs_of(ps, hotkey) == {p \in ps : p.res.ok /\ p.res.hotkey = hotkey}

\* the entry of hotkey_map for a hotkey of the specs
rule_of(ps, hotkey) ==
    HotkeyRule(\E p \in specs_of(ps, hotkey) : ~p.app.some,
               sorted_apps({p.app.val : p \in {x \in specs_of(ps, hotkey) : x.app.some}}))

\* the warning of build_hotkeys about the hotkey of an entry of hotkey_map
rule_warnings(combos, rule) ==
    IF rule.is_global /\ rule.apps # <<>>
    THEN {Warning("Hotkey '{}' is global and app-specific (apps: {}).", combos, rule.apps,
                  NotParsed("", <<>>))}
    ELSE IF Len(rule.apps) > 1
    THEN {Warning("Hotkey '{}' is shared by apps: {}.", combos, rule.apps,
                  NotParsed("", <<>>))}
    ELSE {}

\* the warnings of build_hotkeys
build_warnings(ps, ids) ==
    {Warning("Hotkey '{}': {}", {p.combo}, <<>>, p.res) : p \in {x \in ps : ~x.res.ok}}
    \cup UNION {rule_warnings({p.combo : p \in specs_of(ps, h)}, rule_of(ps, h)) : h \in ids}

\* the hotkeys that the combos of the specs parse to
parsed_ids(ps) == {p.res.hotkey : p \in {x \in ps : x.res.ok}}

\* build_hotkeys for the parsed specs: the entries, the hotkey_map and the
\* warnings
build_parsed(ps, ids) ==
    [entries |-> {HotkeyEntry(h, {p.combo : p \in specs_of(ps, h)}) : h \in ids},
     map |-> [h \in ids |-> rule_of(ps, h)],
     warnings |-> build_warnings(ps, ids)]

build_entries(ps) == build_parsed(ps, parsed_ids(ps))

\* build_hotkeys(specs)
build_hotkeys(specs) == build_entries(parsed_specs(specs))

----------------------------------------------------------------------------
(* app.rs: the history, the clipboard and the panel.                       *)

\* one pass of str::replace("  ", " "): matches are taken from the left and
\* do not overlap
RECURSIVE replace_two_spaces(_)
replace_two_spaces(s) ==
    IF Len(s) < 2 THEN s
    ELSE IF s[1] = " " /\ s[2] = " "
         THEN <<" ">> \o replace_two_spaces(SubSeq(s, 3, Len(s)))
         ELSE <<s[1]>> \o replace_two_spaces(Tail(s))

\* while cleaned.contains("  ") { cleaned = cleaned.replace("  ", " ") }
RECURSIVE squeeze_spaces(_)
squeeze_spaces(s) ==
    IF contains(s, <<" ", " ">>) THEN squeeze_spaces(replace_two_spaces(s)) ELSE s

\* the line breaks replaced by spaces, the spaces squeezed, the first 77
\* characters and "..." when there are more than 80
snippet_cut(cleaned) ==
    IF Len(cleaned) > 80 THEN SubSeq(cleaned, 1, 77) \o <<".", ".", ".">> ELSE cleaned

snippet_text(text) ==
    snippet_cut(squeeze_spaces([i \in 1..Len(text) |->
                                   IF text[i] \in {"\n", "\r"} THEN " " ELSE text[i]]))

HistoryItem(time, action, rule, snippet) ==
    [time |-> time, action |-> action, rule |-> rule, snippet |-> snippet]

\* a variant that puts the new entry behind the older ones
record_history_at_back(s, action, now) ==
    [s EXCEPT !.history =
        truncate(Append(s.history,
                        HistoryItem(now, action,
                                    IF selected_rule(s.suggestions, s.rules, s.selected_rule_id).some
                                    THEN selected_rule(s.suggestions, s.rules, s.selected_rule_id).val.name
                                    ELSE "No rule",
                                    snippet_text(s.panel.output))), 5)]

\* record_history(state, action)
record_history(s, action, now) ==
    [s EXCEPT !.history =
        truncate(<<HistoryItem(now, action,
                               IF selected_rule(s.suggestions, s.rules, s.selected_rule_id).some
                               THEN selected_rule(s.suggestions, s.rules, s.selected_rule_id).val.name
                               ELSE "No rule",
                               snippet_text(s.panel.output))>> \o s.history, 5)]

\* apply_copy_internal(state, action): the clipboard takes the output
\* (written) or refuses it
apply_copy_internal(s, action, written, now) ==
    IF written THEN record_history([s EXCEPT !.clipboard = "written"], action, now)
    ELSE [s EXCEPT !.panel.error = Some(FailedToCopy), !.clipboard = "refused"]

\* apply_paste(state): the output is copied, then Cmd+V is simulated
apply_paste(s, written, now) ==
    [apply_copy_internal(s, "Paste", written, now) EXCEPT !.keystroke = TRUE]

\* send_state(state, webview), unless the handler is unwinding
send_state(s) ==
    IF s.panicked THEN s
    ELSE [s EXCEPT !.sent = Some(UiState(s.panel.input, s.panel.output,
                                         s.selected_rule_id, s.panel.error))]

\* window.set_visible(visible), unless the handler is unwinding
set_visible(s, visible) == IF s.panicked THEN s ELSE [s EXCEPT !.visible = visible]

\* the messages that config_error carries; the text of an io::Error or of
\* a toml::de::Error is one opaque piece
NoValidHotkeys == <<"No valid hotkeys registered.">>
FailedToRegister == <<"Failed to register hotkeys.">>
FailedToLoad == <<"failed to load config: ", "{std::io::Error}">>
FailedToParse == <<"failed to parse config: ", "{toml::de::Error}">>

\* config::Config
Config(hotkey, limit, rs, ui_state) ==
    [hotkey |-> hotkey, limit |-> limit, rules |-> rs, ui_state |-> ui_state]

\* state.cfg
Cfg(s) == Config(s.hotkey, s.limit, s.rules, s.ui_state)

\* toml::to_string_pretty(cfg): one piece of text for each configuration
to_toml(cfg) == <<ToString(cfg)>>

\* the answers of the file system to a handler: "ok", "read_only" (the file
\* cannot be written), "unreadable" (the file cannot be read)
DiskOutcomes == {"ok", "read_only", "unreadable"}

\* persist_config(state): config::save writes the file, config::load_raw
\* reads it back
persist_config(s) ==
    IF s.disk = "read_only" THEN [s EXCEPT !.config_error = Some(FailedToLoad)]
    ELSE [s EXCEPT !.file = to_toml(Cfg(s)),
                   !.config_error = NoString,
                   !.config_text = IF s.disk = "ok" THEN Some(to_toml(Cfg(s))) ELSE NoString,
                   !.config_diff = NoString,
                   !.config_draft_error = NoString]

\* hotkey_manager.unregister_all(&registered_hotkeys): s.unregistered tells
\* whether the manager removes them, or returns an error and removes none
unregister_all(s) ==
    IF s.registered_hotkeys # {} /\ s.unregistered
    THEN s.manager \ s.registered_hotkeys
    ELSE s.manager

\* the hotkeys of the entries that hotkey_manager.register accepts: the
\* operating system grants the hotkeys of s.granted, and the manager
\* refuses a hotkey that it holds already
registered(s, entries, held) ==
    {e.hotkey : e \in {x \in entries : x.hotkey \in s.granted /\ x.hotkey \notin held}}

\* apply_hotkeys(state) from the test of the registered hotkeys on
register_done(s, built, held, got) ==
    IF got = {}
    THEN [s EXCEPT !.manager = held,
                   !.config_error = Some(FailedToRegister),
                   !.applied = "err"]
    ELSE [s EXCEPT !.manager = held \cup got,
                   !.registered_hotkeys = got,
                   !.hotkey_map = built.map,
                   !.hotkey_warnings =
                       built.warnings
                       \cup {Warning("Failed to register hotkey '{}'", e.combos, <<>>,
                                     NotParsed("", <<>>)) :
                                e \in {x \in built.entries : x.hotkey \notin got}},
                   !.applied = "ok"]

\* apply_hotkeys(state) from the call of unregister_all on
register_entries(s, built, held) ==
    register_done(s, built, held, registered(s, built.entries, held))

\* apply_hotkeys(state) for the hotkeys that build_hotkeys returns
apply_built(s, built) ==
    IF built.entries = {}
    THEN [s EXCEPT !.config_error = Some(NoValidHotkeys), !.applied = "err"]
    ELSE register_entries(s, built, unregister_all(s))

\* apply_hotkeys(state); applied tells how the call ended
apply_hotkeys(s) == apply_built(s, build_hotkeys(build_hotkey_specs(s.hotkey)))

\* handle_ipc(IpcMessage::UpdateHotkeyCombo { combo })
update_hotkey_combo(s, combo) ==
    send_state(IF trim(combo) # <<>>
               THEN apply_hotkeys(persist_config([s EXCEPT !.hotkey.combo = trim(combo)]))
               ELSE s)

\* HashMap::remove and HashMap::insert on cfg.hotkey.apps
apps_remove(apps, app) == [a \in DOMAIN apps \ {app} |-> apps[a]]
apps_insert(apps, app, combo) ==
    [a \in DOMAIN apps \cup {app} |-> IF a = app THEN combo ELSE apps[a]]

\* handle_ipc(IpcMessage::UpdateHotkeyApp { app, combo })
update_hotkey_app(s, app, combo) ==
    send_state(IF trim(app) # <<>>
               THEN apply_hotkeys(persist_config(
                        [s EXCEPT !.hotkey.apps =
                            IF trim(combo) = <<>> THEN apps_remove(s.hotkey.apps, trim(app))
                            ELSE apps_insert(s.hotkey.apps, trim(app), trim(combo))]))
               ELSE s)

\* handle_ipc(IpcMessage::RemoveHotkeyApp { app })
remove_hotkey_app(s, app) ==
    send_state(apply_hotkeys(persist_config(
                   [s EXCEPT !.hotkey.apps = apps_remove(s.hotkey.apps, trim(app))])))

\* handle_ipc(IpcMessage::RequestConfig): config::load_raw reads the file
request_config(s) ==
    send_state(IF s.disk = "unreadable" THEN [s EXCEPT !.config_error = Some(FailedToLoad)]
               ELSE [s EXCEPT !.config_text = Some(s.file),
                              !.config_error = NoString,
                              !.config_draft_error = NoString,
                              !.config_diff = NoString])

\* handle_ipc(IpcMessage::UpdateConfigDraft { raw }): parsed is what
\* config::parse_raw(&raw) returns
update_config_draft(s, raw, parsed) ==
    send_state([s EXCEPT !.config_diff =
                             IF s.config_text.some /\ s.config_text.val # raw
                             THEN Some(unified_diff(s.config_text.val, raw))
                             ELSE NoString,
                         !.config_draft_error =
                             IF parsed.some THEN NoString ELSE Some(FailedToParse),
                         !.io = [event |-> "UpdateConfigDraft", raw |-> raw,
                                 parsed |-> parsed.some, wrote |-> FALSE]])

\* refresh_preview(state) on the AppState
refreshed(s, now) ==
    {[s EXCEPT !.panel = o.panel, !.panicked = o.panic] :
        o \in refresh_preview(s.panel, s.suggestions, s.rules, s.selected_rule_id, now)}

\* the end of rebuild_suggestions: a selected id that no rule carries gives
\* way to the first suggestion
reselected(s) ==
    IF s.selected_rule_id.some /\ ~has_rule(s.rules, s.selected_rule_id.val)
    THEN [s EXCEPT !.selected_rule_id = first_id(s.suggestions)]
    ELSE s

\* suggest_rules(&cfg.rules, &ctx, cfg.ui.suggestions) into state.suggestions;
\* no rule of the configurations below has a regex, so no cell is written
scored(s, c) ==
    [s EXCEPT !.ctx = c, !.suggestions = suggest_rules(s.rules, c, s.limit, <<EmptyCell>>).out]

\* rebuild_suggestions(state); app is what active_app_name() returns when
\* the panel has no application name
rebuild_suggestions(s, app) ==
    reselected(scored(s, MatchContext(s.panel.input,
                                      detect_content_types(s.panel.input),
                                      IF s.panel.active_app.some
                                      THEN s.panel.active_app ELSE app)))

\* open_panel from the auto-accept test on
open_accepted(s, now, written) ==
    IF /\ ~s.panicked
       /\ selected_rule(s.suggestions, s.rules, s.selected_rule_id).some
       /\ selected_rule(s.suggestions, s.rules, s.selected_rule_id).val.auto_accept
    THEN apply_paste(s, written, now)
    ELSE set_visible(send_state(s), TRUE)

\* open_panel from the test of the selected id against cfg.rules on
open_validated(s, now, written) ==
    {open_accepted(p, now, written) :
        p \in refreshed(IF s.selected_rule_id.some
                           /\ ~has_rule(s.rules, s.selected_rule_id.val)
                        THEN persist_config(
                                 [s EXCEPT !.selected_rule_id = first_id(s.suggestions),
                                           !.ui_state =
                                               update_ui_prefs(s.ui_state, s.panel.active_app_key,
                                                               first_id(s.suggestions))])
                        ELSE s, now)}

\* open_panel from the choice of the selected id on: the id persisted for
\* the application, else the first suggestion
open_selected(s, now, written) ==
    open_validated(
        [s EXCEPT !.selected_rule_id =
            IF persisted_selection(s.ui_state, s.panel.active_app_key).some
            THEN persisted_selection(s.ui_state, s.panel.active_app_key)
            ELSE first_id(s.suggestions)],
        now, written)

\* open_panel for the MatchContext c of the clipboard text
open_scored(s, read, c, now, written) ==
    open_selected(
        scored([s EXCEPT !.read = IF read.some THEN "ok" ELSE "failed",
                         !.panel =
                   [input |-> c.text,
                    output |-> s.panel.output,
                    diff |-> s.panel.diff,
                    error |-> IF read.some THEN s.panel.error
                              ELSE Some(FailedToReadClipboard),
                    active_app |-> c.active_app,
                    content_types |-> c.content_types,
                    active_app_key |-> IF c.active_app.some THEN c.active_app.val
                                       ELSE Global]], c),
        now, written)

\* the text that open_panel works on: the clipboard text, or the empty
\* text when the clipboard cannot be read
clipboard_text(read) == IF read.some THEN read.val ELSE <<>>

\* open_panel(state): read is the outcome of clipboard.get_text(), app of
\* active_app_name(), written of clipboard.set_text() in an auto-accepted
\* paste
open_panel(s, read, app, now, written) ==
    open_scored(s, read,
                MatchContext(clipboard_text(read),
                             detect_content_types(clipboard_text(read)), app),
                now, written)

\* the index of the first rule with the id: cfg.rules.iter_mut().find(..)
first_with_id(rs, id) == SetMin({i \in 1..Len(rs) : rs[i].id = id})

\* handle_ipc(IpcMessage::SelectRule { id })
select_rule(s, id, now) ==
    {send_state(r) :
        r \in refreshed(persist_config(
                            [s EXCEPT !.selected_rule_id = Some(id),
                                      !.ui_state = update_ui_prefs(s.ui_state,
                                                                   s.panel.active_app_key,
                                                                   Some(id))]), now)}

\* handle_ipc(IpcMessage::ToggleAutoAccept { id, value })
toggle_auto_accept(s, id, value, now) ==
    {send_state(r) :
        r \in refreshed(IF has_rule(s.rules, id)
                        THEN persist_config(
                                 [s EXCEPT !.rules[first_with_id(s.rules, id)].auto_accept = value])
                        ELSE s, now)}

\* handle_ipc(IpcMessage::TogglePinned { id, value })
toggle_pinned(s, id, value, app, now) ==
    {send_state(r) :
        r \in refreshed(rebuild_suggestions(
                            IF has_rule(s.rules, id)
                            THEN persist_config(
                                     [s EXCEPT !.rules[first_with_id(s.rules, id)].pinned = value])
                            ELSE s, app), now)}

\* handle_ipc(IpcMessage::UpdateRuleDescription { id, value })
update_rule_description(s, id, value) ==
    send_state(IF has_rule(s.rules, id)
               THEN persist_config(
                        [s EXCEPT !.rules[first_with_id(s.rules, id)].description =
                            IF trim(value) = <<>> THEN NoString ELSE Some(trim(value))])
               ELSE s)

\* what SaveConfig did with the text: whether it parsed and was written
SaveIo(raw, parsed, wrote) ==
    [event |-> "SaveConfig", raw |-> raw, parsed |-> parsed, wrote |-> wrote]

\* SaveConfig after config::write_raw(&raw) wrote the text
save_written(s, raw, cfg, app, now) ==
    {send_state(IF r.panicked THEN r ELSE apply_hotkeys(r)) :
        r \in refreshed(rebuild_suggestions([s EXCEPT !.hotkey = cfg.hotkey,
                                                      !.rules = cfg.rules,
                                                      !.limit = cfg.limit,
                                                      !.ui_state = cfg.ui_state,
                                                      !.file = raw,
                                                      !.config_text = Some(raw),
                                                      !.config_error = NoString,
                                                      !.config_draft_error = NoString,
                                                      !.config_diff = NoString,
                                                      !.io = SaveIo(raw, TRUE, TRUE)],
                                            app), now)}

\* a variant that takes the parsed configuration although the text could
\* not be written
save_config_unwritten(s, raw, parsed, app, now) ==
    IF ~parsed.some
    THEN {send_state([s EXCEPT !.config_error = Some(FailedToParse),
                               !.io = SaveIo(raw, FALSE, FALSE)])}
    ELSE IF s.disk = "read_only"
    THEN {[r EXCEPT !.file = s.file, !.config_text = s.config_text,
                    !.config_error = Some(FailedToLoad),
                    !.io = SaveIo(raw, TRUE, FALSE)] :
             r \in save_written(s, raw, parsed.val, app, now)}
    ELSE save_written(s, raw, parsed.val, app, now)

\* handle_ipc(IpcMessage::SaveConfig { raw }): parsed is what
\* config::parse_raw(&raw) returns
save_config(s, raw, parsed, app, now) ==
    IF ~parsed.some
    THEN {send_state([s EXCEPT !.config_error = Some(FailedToParse),
                               !.io = SaveIo(raw, FALSE, FALSE)])}
    ELSE IF s.disk = "read_only"
    THEN {send_state([s EXCEPT !.config_error = Some(FailedToLoad),
                               !.io = SaveIo(raw, TRUE, FALSE)])}
    ELSE save_written(s, raw, parsed.val, app, now)

----------------------------------------------------------------------------
(* SpecApp: the events that the application handles, one after another.    *)

\* UiConfig::default().suggestions
DefaultSuggestions == 3

\* a rule of the configuration
AppRule(id, name, content_types, transform) ==
    [Rule(id, FALSE, Matchers(content_types, NoVec, NoString), 1)
        EXCEPT !.name = name, !.transform = Some(transform), !.llm = NoLlm]

\* a configuration in which two rules carry the id "dup", one without the
\* rules of the first, and one whose only rule is for JSON text and is
\* configured with auto_accept = true
AppRuleLists ==
    {<<AppRule("dup", "first", NoVec, "StripFormatting"),
       AppRule("pretty", "pretty", Some(<<"Json">>), "JsonPrettify"),
       AppRule("dup", "second", Some(<<"Json">>), "JsonMinify")>>,
     <<AppRule("strip", "strip", NoVec, "StripFormatting")>>,
     <<[AppRule("auto", "auto", Some(<<"Json">>), "JsonPrettify")
           EXCEPT !.auto_accept = TRUE]>>}

\* the outcomes of clipboard.get_text(): an error, and a JSON text that
\* every transform of the rules changes
ClipboardReads ==
    {NoString, Some(<<"{", "\"", "a", "\"", ":", " ", "1", "}", " ">>)}

\* the outcomes of active_app_name(): one application is active
AppNames == {Some(<<"S", "l">>)}

\* the ids and the descriptions that the panel sends
ToggleIds == {"dup", "gone"}
Descriptions == {<<>>, <<" ", "d">>}

\* the wall clock of SpecApp
AppClocks == {DateTimeOf(days_from_civil(2025, 11, 3), 78642, 0)}

\* the panel of AppState::new
NewPanel ==
    [input |-> <<>>, output |-> <<>>, diff |-> <<>>, error |-> NoString,
     active_app |-> NoString, content_types |-> <<>>, active_app_key |-> Global]

\* a text of the configuration editor, and what config::parse_raw makes
\* of it
Draft(raw, parsed) == [raw |-> raw, parsed |-> parsed]

\* a text that is not TOML
BrokenToml == <<"r", "u", "l", "e", "s", " ", "=">>

\* the texts that the configuration editor saves in SpecApp: texts that
\* keep the hotkeys and the table ui_state and replace the rules
SavedConfigs(s) ==
    {Draft(to_toml(Config(s.hotkey, DefaultSuggestions, rs, s.ui_state)),
           Some(Config(s.hotkey, DefaultSuggestions, rs, s.ui_state))) :
        rs \in AppRuleLists}

\* the hotkey of the combo "Cmd+Shift+V"
DefaultHotKey == HotKey({"META", "SHIFT"}, "KeyV")

\* the AppState of a handler, from the values of the variables; the file
\* system and the hotkey manager of the operating system do what they are
\* asked to until an event says otherwise
AppStateOf(rs, limit, suggestions, selected, p, c, st) ==
    [rules |-> rs, limit |-> limit, ui_state |-> st.ui_state,
     suggestions |-> suggestions, selected_rule_id |-> selected, panel |-> p,
     history |-> st.history, ctx |-> c, clipboard |-> "untouched",
     panicked |-> FALSE, read |-> "none", keystroke |-> FALSE,
     visible |-> st.visible, sent |-> NoSent,
     hotkey |-> st.hotkey, file |-> st.file,
     config_text |-> st.config_text, config_error |-> st.config_error,
     config_draft_error |-> st.config_draft_error, config_diff |-> st.config_diff,
     manager |-> st.manager, registered_hotkeys |-> st.registered_hotkeys,
     hotkey_map |-> st.hotkey_map, hotkey_warnings |-> st.hotkey_warnings,
     applied |-> "none", io |-> NoIo,
     disk |-> "ok", granted |-> {DefaultHotKey}, unregistered |-> TRUE]

\* the part of an AppState that the variable state keeps
StateOf(s) ==
    [history |-> s.history, ui_state |-> s.ui_state, read |-> s.read,
     keystroke |-> s.keystroke, visible |-> s.visible, sent |-> s.sent,
     hotkey |-> s.hotkey, file |-> s.file,
     config_text |-> s.config_text, config_error |-> s.config_error,
     config_draft_error |-> s.config_draft_error, config_diff |-> s.config_diff,
     manager |-> s.manager, registered_hotkeys |-> s.registered_hotkeys,
     hotkey_map |-> s.hotkey_map, hotkey_warnings |-> s.hotkey_warnings,
     applied |-> s.applied, io |-> s.io]

\* Pasteflow::new for the configuration that config::load_or_init reads
NewState(cfg) == [NoState EXCEPT !.hotkey = cfg.hotkey, !.file = to_toml(cfg)]

\* the call of apply_hotkeys in resumed
resumed(s) == apply_hotkeys(s)

\* Pasteflow::new
InitApp ==
    /\ rules \in AppRuleLists
    /\ cells = <<EmptyCell>>
    /\ self = 1
    /\ ctx = NoContext
    /\ max = DefaultSuggestions
    /\ ret = NoScore
    /\ out = <<>>
    /\ pc = "started"
    /\ thr = NoThreads
    /\ input = <<>>
    /\ types = <<>>
    /\ chain = <<>>
    /\ panel = NewPanel
    /\ selected_rule_id = NoId
    /\ state = StateOf(resumed(AppStateOf(rules, DefaultSuggestions, <<>>, NoId, NewPanel,
                                          NoContext,
                                          NewState(Config(HotkeyConfig(DefaultCombo, <<>>),
                                                          DefaultSuggestions, rules, <<>>)))))

\* the AppState that a handler finds
TheAppState == AppStateOf(rules, max, out, selected_rule_id, panel, ctx, state)

\* the AppState that a handler leaves; pc tells whether it unwound, and
\* whether it wrote the clipboard
Leaves(s) ==
    /\ rules' = s.rules
    /\ max' = s.limit
    /\ out' = s.suggestions
    /\ selected_rule_id' = s.selected_rule_id
    /\ panel' = s.panel
    /\ state' = StateOf(s)
    /\ ctx' = s.ctx
    /\ pc' = IF s.panicked THEN "panicked"
             ELSE IF s.clipboard = "untouched" THEN "handled"
             ELSE s.clipboard
    /\ UNCHANGED <<cells, self, ret, thr, input, types, chain>>

\* UserEvent::Hotkey or the tray menu: open_panel(state); it shows the
\* window of the panel, which sends the messages of handle_ipc
OpenPanel ==
    /\ pc # "panicked"
    /\ \E read \in ClipboardReads, app \in AppNames, now \in AppClocks, written \in BOOLEAN :
         \E s \in open_panel(TheAppState, read, app, now, written) : Leaves(s)

\* handle_ipc(IpcMessage::Paste)
Paste ==
    /\ pc \notin {"started", "panicked"}
    /\ \E now \in AppClocks, written \in BOOLEAN :
         Leaves(set_visible(apply_paste(TheAppState, written, now), FALSE))

\* handle_ipc(IpcMessage::Copy)
Copy ==
    /\ pc \notin {"started", "panicked"}
    /\ \E now \in AppClocks, written \in BOOLEAN :
         Leaves(set_visible(apply_copy_internal(TheAppState, "Copy", written, now), FALSE))

\* handle_ipc(IpcMessage::Cancel)
Cancel ==
    /\ pc \notin {"started", "panicked"}
    /\ Leaves(set_visible(TheAppState, FALSE))

\* handle_ipc(IpcMessage::SelectRule { id }) for the id of a rule that the
\* panel shows
IpcSelectRule ==
    /\ pc \notin {"started", "panicked"}
    /\ \E i \in 1..Len(rules), now \in AppClocks :
         \E s \in select_rule(TheAppState, rules[i].id, now) : Leaves(s)

\* handle_ipc(IpcMessage::ToggleAutoAccept { id, value })
ToggleAutoAccept ==
    /\ pc \notin {"started", "panicked"}
    /\ \E id \in ToggleIds, value \in BOOLEAN, now \in AppClocks :
         \E s \in toggle_auto_accept(TheAppState, id, value, now) :
            Leaves(s)

\* handle_ipc(IpcMessage::TogglePinned { id, value })
TogglePinned ==
    /\ pc \notin {"started", "panicked"}
    /\ \E id \in ToggleIds, value \in BOOLEAN, app \in AppNames, now \in AppClocks :
         \E s \in toggle_pinned(TheAppState, id, value, app, now) :
            Leaves(s)

\* handle_ipc(IpcMessage::UpdateRuleDescription { id, value })
UpdateRuleDescription ==
    /\ pc \notin {"started", "panicked"}
    /\ \E id \in ToggleIds, value \in Descriptions :
         Leaves(update_rule_description(TheAppState, id, value))

\* handle_ipc(IpcMessage::SaveConfig { raw })
SaveConfig ==
    /\ pc \notin {"started", "panicked"}
    /\ \E draft \in SavedConfigs(TheAppState), app \in AppNames, now \in AppClocks :
         \E s \in save_config(TheAppState, draft.raw, draft.parsed, app, now) :
            Leaves(s)

\* the events that can write the clipboard, as long as the session has
\* written nothing; SpecHistory below has the sessions of many writes
BoundedOpenPanel == state.history = <<>> /\ OpenPanel
BoundedPaste == state.history = <<>> /\ Paste
BoundedCopy == state.history = <<>> /\ Copy

NextApp ==
    \/ BoundedOpenPanel
    \/ BoundedPaste
    \/ BoundedCopy
    \/ Cancel
    \/ IpcSelectRule
    \/ ToggleAutoAccept
    \/ TogglePinned
    \/ UpdateRuleDescription
    \/ SaveConfig

SpecApp == InitApp /\ [][NextApp]_vars

\* SpecHistory: the panel is opened once, and its output is copied and
\* pasted any number of times
FirstOpenPanel == pc = "started" /\ OpenPanel

NextHistory == FirstOpenPanel \/ Paste \/ Copy

SpecHistory == InitApp /\ [][NextHistory]_vars

----------------------------------------------------------------------------
(* Claims about the event handlers, checked under SpecApp and SpecHistory. *)

\* the rule that an id names: the first rule of the configuration that
\* carries it
NamedRule(rs, id) == IF id.some THEN find_rule(rs, id.val) ELSE NoRule

\* rule i of the list has an earlier rule with the same id
LaterDuplicate(rs, i) == \E j \in 1..(i - 1) : rs[j].id = rs[i].id

\* the panel shows what the rule that the selected id names makes of the input
PreviewOfNamedRule ==
    \E now \in AppClocks :
        \E r \in (IF NamedRule(rules, selected_rule_id).some
                  THEN apply_rule(NamedRule(rules, selected_rule_id).val, panel.input, now)
                  ELSE {ResultOk(panel.input)}) :
            ShowsOutcome(NamedRule(rules, selected_rule_id), r)

\* the newest history entry names the rule that the selected id names
HistoryOfNamedRule ==
    state.history[1].rule = IF NamedRule(rules, selected_rule_id).some
                            THEN NamedRule(rules, selected_rule_id).val.name
                            ELSE "No rule"

\* rule i of the list is as a configuration text has it
AsConfigured(rs, i) == \E saved \in AppRuleLists : i <= Len(saved) /\ rs[i] = saved[i]

\* C27: every lookup of a rule by its id takes the first rule of the
\* configuration with that id: no handler modifies a later rule with the
\* same id, the preview that a handler leaves shows the outcome of the
\* first rule with the selected id, and a recorded copy or paste names
\* that rule.
C27_FirstRuleWithId ==
    /\ \A i \in 1..Len(rules) : LaterDuplicate(rules, i) => AsConfigured(rules, i)
    /\ (pc \in {"handled", "written"} /\ panel.error # Some(FailedToCopy))
           => PreviewOfNamedRule
    /\ pc = "written" => HistoryOfNamedRule


\* C28: the history never holds more than 5 entries and is ordered newest
\* first: a handler that wrote the clipboard put exactly one entry, for
\* the output it wrote, in front of the entries held before, of which the
\* oldest is dropped when 5 were held; a handler whose clipboard write
\* failed, like every other handler, left the history as it was.
C28_HistoryNewestFirst ==
    [][/\ Len(state.history') <= 5
       /\ pc' = "written" =>
             /\ Len(state.history') = Min(Len(state.history) + 1, 5)
             /\ SubSeq(state.history', 2, Len(state.history'))
                   = SubSeq(state.history, 1, Len(state.history') - 1)
             /\ state.history'[1].action \in {"Copy", "Paste"}
             /\ state.history'[1].snippet = snippet_text(panel'.output)
       /\ pc' # "written" => state.history' = state.history
      ]_vars

\* five entries are held, the newest a copy and the oldest a paste, after a
\* clipboard write that failed and one that succeeded
C28_Witness ==
    /\ pc = "written"
    /\ Len(state.history) = 5
    /\ state.history[1].action = "Copy"
    /\ state.history[2].action = "Paste"
    /\ state.history[5].action = "Paste"
    /\ panel.error = Some(FailedToCopy)


\* the id, when there is one, is the id of a rule of the configuration
NamesARule(id) == id.some => has_rule(rules, id.val)

\* C29: after every event handled, the selected rule id is absent or the
\* id of a rule of cfg.rules, and so is every selected rule id that
\* cfg.ui_state keeps for an application.
C29_SelectionNamesARule ==
    pc # "panicked" =>
        /\ NamesARule(selected_rule_id)
        /\ \A key \in DOMAIN state.ui_state :
               NamesARule(state.ui_state[key].selected_rule_id)


\* current_match_context(state)
current_match_context ==
    MatchContext(panel.input, panel.content_types, panel.active_app)

\* C30: after every message handled, state.suggestions is what
\* suggest_rules returns for the rules of cfg.rules and the context of the
\* panel: the copy of a rule in the suggestions has the pinned,
\* auto_accept and description values of the rule in cfg.rules.
C30_SuggestionsCurrent ==
    pc \in {"handled", "written", "refused"} =>
        out = suggest_rules(rules, current_match_context, max, <<EmptyCell>>).out

----------------------------------------------------------------------------
(* C31: a paste keystroke only after a successful clipboard write.         *)

\* C31: an event simulates the paste keystroke only when it has written
\* panel.output to the clipboard; an event whose clipboard write is refused
\* sends no keystroke and leaves the error "Failed to copy" in panel.error
\* (that it records no history entry is part of C28_HistoryNewestFirst).
C31_KeystrokeAfterWrite ==
    /\ state.keystroke => pc = "written"
    /\ pc = "refused" => ~state.keystroke /\ panel.error = Some(FailedToCopy)

----------------------------------------------------------------------------
(* C33: a clipboard that cannot be read.                                   *)

\* C33: when clipboard.get_text() fails in open_panel and the panel is
\* shown, the state sent to the panel has the empty text as its input and
\* carries the error "Failed to read clipboard".
C33_ReadFailureShown ==
    (state.read = "failed" /\ state.sent.some) =>
        /\ state.sent.val.before = <<>>
        /\ state.sent.val.error = Some(FailedToReadClipboard)

----------------------------------------------------------------------------
(* C34: the auto-accepted paste of open_panel.                             *)

\* the rule that the selected id names among the suggestions
SuggestedRule ==
    find_rule([i \in 1..Len(out) |-> out[i].rule], selected_rule_id.val)

\* open_panel applied a rule by itself: it read the clipboard and sent the
\* paste keystroke
AutoApplied == state.read # "none" /\ state.keystroke

\* C34: when open_panel pastes by itself, the selected rule is one of the
\* suggestions computed for the text just read, has auto_accept set, and
\* its transform succeeded on that text (panel.output is one of its
\* outputs, and no transform error was raised).
C34_AutoAppliedRuleMatches ==
    AutoApplied =>
        /\ selected_rule_id.some
        /\ SuggestedRule.some
        /\ SuggestedRule.val.auto_accept
        /\ out = suggest_rules(rules, MatchContext(panel.input, panel.content_types,
                                                   panel.active_app), max, <<EmptyCell>>).out
        /\ \E now \in AppClocks :
              ResultOk(panel.output) \in apply_rule(SuggestedRule.val, panel.input, now)

----------------------------------------------------------------------------
(* C36: the line counts of compute_stats.                                  *)

\* the number of lines that a script of changes inserts, and the number
\* that it deletes
Inserted(cs) == Cardinality({i \in 1..Len(cs) : cs[i].tag = "+"})
Deleted(cs) == Cardinality({i \in 1..Len(cs) : cs[i].tag = "-"})

\* the script of changes between the lines of the input and of the output
\* of the panel
PanelChanges == diff_ops(diff_lines(panel.input), diff_lines(panel.output))

\* C36: for a refreshed preview, diff_added and diff_removed of
\* compute_stats are the numbers of lines that the unified diff of
\* panel.input and panel.output inserts and deletes, whatever the changed
\* lines begin with.
C36_StatsCountChangedLines ==
    pc \in {"refreshed", "reselected"} =>
        /\ panel.diff = unified_diff(panel.input, panel.output)
        /\ diff_line_stats(panel.diff) =
              [added |-> Inserted(PanelChanges), removed |-> Deleted(PanelChanges)]


----------------------------------------------------------------------------
(* Idempotence of the two text transforms, checked under SpecTransform.    *)

IdempotentKinds == {"StripFormatting", "BulletNormalize"}

\* the chain applied one transform and then the same transform to its output
AppliedTwice(kind) ==
    /\ Len(chain) = 2
    /\ chain[1].kind = kind
    /\ chain[2].kind = kind

\* C37: StripFormatting and BulletNormalize are idempotent: for every input
\* text, the transform applied to its own output succeeds and returns that
\* output unchanged.
C37_Idempotent ==
    \A kind \in IdempotentKinds :
        AppliedTwice(kind) =>
            /\ chain[2].result.status = "ok"
            /\ chain[2].result.text = Source(2)


----------------------------------------------------------------------------
(* TimestampNormalize applied to its own output, checked under             *)
(* SpecTransform.                                                          *)

\* a text that detection takes for Unix seconds or milliseconds
UnixDigits(t) == AllDigits(t) /\ Len(t) \in {10, 13}

\* C38: for every all-digit text s of exactly 10 or 13 characters,
\* TimestampNormalize succeeds on s, and TimestampNormalize applied to that
\* output succeeds and returns s.
C38_TimestampRoundTrip ==
    UnixDigits(input) =>
        /\ (Len(chain) >= 1 /\ chain[1].kind = "TimestampNormalize") =>
              chain[1].result.status = "ok"
        /\ (Len(chain) = 2 /\ chain[1].kind = "TimestampNormalize"
                           /\ chain[2].kind = "TimestampNormalize") =>
              chain[2].result = Ok(input)


----------------------------------------------------------------------------
(* SpecConfig and SpecHotkeys: the configuration editor and the hotkey     *)
(* settings. The file system and the hotkey manager answer each handler in *)
(* any of their ways.                                                      *)

\* "shift + cmd + v", the hotkey of the default combo written differently
SameCombo == <<"s", "h", "i", "f", "t", " ", "+", " ", "c", "m", "d", " ", "+", " ", "v">>
\* "Alt+F1"
AltF1 == <<"A", "l", "t", "+", "F", "1">>
\* "Cmd+Shift", a combo without a key, and "Ctl+V", a combo with a word
\* that is no key
CmdShift == <<"C", "m", "d", "+", "S", "h", "i", "f", "t">>
CtlV == <<"C", "t", "l", "+", "V">>

\* the combos that the panel sends for the global hotkey and for an
\* application; a blank combo removes the hotkey of the application
GlobalCombos == {DefaultCombo, <<" ", "A", "l", "t", "+", "F", "1">>, CtlV, <<" ">>}
AppCombos == {SameCombo, CmdShift, <<>>}

\* the application names that the panel sends
HotkeyApps == {<<" ", "S", "l">>, <<" ">>}

\* the hotkeys of these combos
ModelHotKeys == {DefaultHotKey, HotKey({"ALT"}, "F1")}

\* what the operating system grants during a handler: every hotkey, the
\* default hotkey only, or none
Grants == {ModelHotKeys, {DefaultHotKey}, {}}

\* the AppState that a handler finds, with the answers of the file system
\* and of the hotkey manager during the handler
Finds(disk, granted, unregistered) ==
    [TheAppState EXCEPT !.disk = disk, !.granted = granted, !.unregistered = unregistered]

\* the texts of the configuration editor in SpecConfig: a text that does
\* not parse, the saved text, the configuration with other rules, and the
\* configuration with a global combo that is no hotkey
ConfigDrafts(s) ==
    {Draft(BrokenToml, None(Cfg(s))),
     Draft(s.file, Some(Cfg(s)))}
        \cup {Draft(to_toml(c), Some(c)) :
                 c \in {Config(s.hotkey, DefaultSuggestions,
                               <<AppRule("pretty", "pretty", Some(<<"Json">>), "JsonPrettify")>>,
                               s.ui_state),
                        Config(HotkeyConfig(CtlV, s.hotkey.apps), s.limit, s.rules,
                               s.ui_state)}}

\* Pasteflow::new
InitConfig ==
    /\ rules = <<AppRule("strip", "strip", NoVec, "StripFormatting")>>
    /\ cells = <<EmptyCell>>
    /\ self = 1
    /\ ctx = NoContext
    /\ max = DefaultSuggestions
    /\ ret = NoScore
    /\ out = <<>>
    /\ pc = "new"
    /\ thr = NoThreads
    /\ input = <<>>
    /\ types = <<>>
    /\ chain = <<>>
    /\ panel = NewPanel
    /\ selected_rule_id = NoId
    /\ state = NewState(Config(HotkeyConfig(DefaultCombo, <<>>), DefaultSuggestions, rules, <<>>))

\* ApplicationHandler::resumed: the hotkeys of the configuration are applied
Resumed ==
    /\ pc = "new"
    /\ \E granted \in Grants :
          state' = StateOf(resumed(Finds("ok", granted, TRUE)))
    /\ pc' = "started"
    /\ UNCHANGED <<rules, cells, self, ctx, max, ret, out, thr, input, types, chain,
                   panel, selected_rule_id>>

\* the hotkey opens the panel on a clipboard that holds a JSON text
ConfigOpenPanel ==
    /\ pc = "started"
    /\ \E read \in {r \in ClipboardReads : r.some}, app \in AppNames, now \in AppClocks :
         \E s \in open_panel(TheAppState, read, app, now, TRUE) : Leaves(s)

\* handle_ipc(IpcMessage::RequestConfig)
RequestConfig ==
    /\ pc \notin {"new", "panicked"}
    /\ \E disk \in DiskOutcomes : Leaves(request_config(Finds(disk, {}, TRUE)))

\* handle_ipc(IpcMessage::UpdateConfigDraft { raw })
UpdateConfigDraft ==
    /\ pc \notin {"new", "panicked"}
    /\ \E draft \in ConfigDrafts(TheAppState) :
          Leaves(update_config_draft(TheAppState, draft.raw, draft.parsed))

\* handle_ipc(IpcMessage::SaveConfig { raw })
ConfigSaveConfig ==
    /\ pc \notin {"new", "panicked"}
    /\ \E draft \in ConfigDrafts(TheAppState), disk \in {"ok", "read_only"},
          granted \in Grants, app \in AppNames, now \in AppClocks :
         \E s \in save_config(Finds(disk, granted, TRUE),
                              draft.raw, draft.parsed, app, now) :
            Leaves(s)

\* handle_ipc(IpcMessage::UpdateHotkeyCombo { combo })
UpdateHotkeyCombo ==
    /\ pc \notin {"new", "panicked"}
    /\ \E combo \in GlobalCombos, granted \in Grants, unregistered \in BOOLEAN :
         Leaves(update_hotkey_combo(Finds("ok", granted, unregistered), combo))

\* handle_ipc(IpcMessage::UpdateHotkeyApp { app, combo })
UpdateHotkeyApp ==
    /\ pc \notin {"new", "panicked"}
    /\ \E app \in HotkeyApps, combo \in AppCombos, disk \in {"ok", "read_only"},
          granted \in Grants :
         Leaves(update_hotkey_app(Finds(disk, granted, TRUE), app, combo))

\* handle_ipc(IpcMessage::RemoveHotkeyApp { app })
RemoveHotkeyApp ==
    /\ pc \notin {"new", "panicked"}
    /\ \E app \in HotkeyApps, disk \in {"ok", "read_only"} :
         Leaves(remove_hotkey_app(Finds(disk, ModelHotKeys, TRUE), app))

\* SpecConfig: the configuration editor
NextConfig ==
    \/ Resumed
    \/ ConfigOpenPanel
    \/ RequestConfig
    \/ UpdateConfigDraft
    \/ ConfigSaveConfig

SpecConfig == InitConfig /\ [][NextConfig]_vars

\* SpecHotkeys: the hotkey settings of the panel
NextHotkeys ==
    \/ Resumed
    \/ UpdateHotkeyCombo
    \/ RemoveHotkeyApp
    \/ UpdateHotkeyApp

SpecHotkeys == InitConfig /\ [][NextHotkeys]_vars

----------------------------------------------------------------------------
(* Claims about the configuration editor, checked under SpecConfig, and    *)
(* about the hotkeys, checked under SpecHotkeys.                           *)

\* the last event was a SaveConfig whose text did not parse or was not
\* written
SaveFailed(st) == st.io.event = "SaveConfig" /\ ~(st.io.parsed /\ st.io.wrote)

\* cfg is what it was before the step
CfgUnchanged ==
    /\ rules' = rules
    /\ max' = max
    /\ state'.ui_state = state.ui_state
    /\ state'.hotkey = state.hotkey

\* C32: SaveConfig replaces cfg only when the text both parses and is
\* written; when parsing or writing fails, cfg, suggestions,
\* selected_rule_id, config_text and the registered hotkeys are unchanged
\* and config_error is set. UpdateConfigDraft never changes cfg, and leaves
\* config_diff absent exactly when there is no saved text or the draft
\* equals the saved text.
C32_SaveAndDraft ==
    [][/\ SaveFailed(state') =>
             /\ CfgUnchanged
             /\ out' = out
             /\ selected_rule_id' = selected_rule_id
             /\ state'.config_text = state.config_text
             /\ state'.registered_hotkeys = state.registered_hotkeys
             /\ state'.manager = state.manager
             /\ state'.config_error.some
       /\ (state'.io.event = "SaveConfig" /\ ~CfgUnchanged) =>
             state'.io.parsed /\ state'.io.wrote
       /\ state'.io.event = "UpdateConfigDraft" =>
             /\ CfgUnchanged
             /\ ~state'.config_diff.some
                   <=> (~state.config_text.some \/ state.config_text.val = state'.io.raw)
      ]_vars

\* a SaveConfig whose text parsed and could not be written, with
\* suggestions, a selected rule, a saved text and registered hotkeys
C32_Witness ==
    /\ state.io.event = "SaveConfig"
    /\ state.io.parsed
    /\ ~state.io.wrote
    /\ out # <<>>
    /\ selected_rule_id.some
    /\ state.config_text.some
    /\ state.io.raw # state.config_text.val
    /\ state.registered_hotkeys # {}

\* C35: when apply_hotkeys returns an error, the hotkeys registered with
\* the manager, registered_hotkeys and hotkey_map are what they were before
\* the call; when it succeeds, registered_hotkeys is the set of hotkeys
\* registered with the manager; so in every state registered_hotkeys is
\* the set of hotkeys registered with the manager.
C35_HotkeysTracked ==
    [][/\ state'.applied = "err" =>
             /\ state'.manager = state.manager
             /\ state'.registered_hotkeys = state.registered_hotkeys
             /\ state'.hotkey_map = state.hotkey_map
       /\ state'.applied = "ok" => state'.registered_hotkeys = state'.manager
       /\ state'.registered_hotkeys = state'.manager
      ]_vars

====
